---------------------------- MODULE Spec2Model ----------------------------
(***************************************************************************)
(* A model of the calculator of src/app: the operation catalog             *)
(* (operations.py), the input validator (input_validators.py), the         *)
(* calculation record (calculation.py), and the Calculator with its        *)
(* history, undo/redo stacks, observers and CSV store (calculator.py,      *)
(* history.py, calculator_memento.py).                                     *)
(*                                                                         *)
(* Decimal values.  A value is a tuple:                                    *)
(*   <<"q", n, d>>   the decimal that is exactly n/d (lowest terms, d > 0) *)
(*   <<"r", n, d>>   the quotient n/d rounded to the 28 significant digits *)
(*                   of the decimal context (n/d has no finite expansion)  *)
(*   <<"f", n, d>>   the binary double nearest to n/d (n/d is no double)   *)
(*   <<"pow", an, ad, bn, bd>>  the double pow(an/ad, bn/bd) when it is    *)
(*                   not a rational the model can name                     *)
(* Two values are equal as tuples exactly when the decimals are equal, for *)
(* the operands within the model's bounds.                                 *)
(***************************************************************************)
EXTENDS Integers, Sequences, FiniteSets, TLC

(***************************************************************************)
(* Bounds of the model and the configuration instance it runs under.      *)
(***************************************************************************)
\* config.max_history_size of the modelled configuration
MaxHistorySize == 2
\* config.max_input_value of the modelled configuration
MaxInputValue == 2
\* the largest number of snapshots the two stacks hold together
MaxSnapshots == 2
\* the largest number of rows of a store found on disk at construction
MaxStoreRows == 3
\* the largest number of registered observers
MaxObservers == 2
\* the largest number of records created while the list objects are followed
MaxRecords == 4
\* the largest number of mementos the two stacks hold together while the
\* list objects are followed
MaxDepth == 3

(***************************************************************************)
(* Exact rational arithmetic underneath the decimal values.               *)
(***************************************************************************)
Abs(n) == IF n < 0 THEN -n ELSE n

RECURSIVE Gcd(_, _)
Gcd(a, b) == IF b = 0 THEN a ELSE Gcd(b, a % b)

\* the decimal n/d, exactly, in lowest terms with a positive denominator
Q(n, d) ==
    LET g == Gcd(Abs(n), Abs(d))
        s == IF d < 0 THEN -1 ELSE 1
    IN  <<"q", (s * n) \div g, (s * d) \div g>>

Num(v) == v[2]
Den(v) == v[3]
IsExact(v) == v[1] = "q"

RECURSIVE StripFactor(_, _)
StripFactor(n, p) == IF n % p = 0 THEN StripFactor(n \div p, p) ELSE n

\* n/d (lowest terms) has a finite decimal expansion
Terminating(d) == StripFactor(StripFactor(d, 2), 5) = 1
\* n/d (lowest terms) is a binary double (for the small n the model uses)
Dyadic(d) == StripFactor(d, 2) = 1

\* integer quotient rounded toward zero, as Decimal.__floordiv__ rounds
TruncDiv(n, d) ==
    LET q == Abs(n) \div Abs(d)
    IN  IF (n < 0) = (d < 0) THEN q ELSE -q

RECURSIVE IntPow(_, _)
IntPow(b, e) == IF e = 0 THEN 1 ELSE b * IntPow(b, e - 1)

\* the integer square root of n when n is a perfect square, otherwise -1
ExactSqrt(n) ==
    IF \E r \in 0..n : r * r = n
      THEN CHOOSE r \in 0..n : r * r = n
      ELSE -1

(***************************************************************************)
(* decimal.Decimal: the operators the program applies to its operands.    *)
(***************************************************************************)
DecAdd(a, b) == Q(Num(a) * Den(b) + Num(b) * Den(a), Den(a) * Den(b))
DecSub(a, b) == Q(Num(a) * Den(b) - Num(b) * Den(a), Den(a) * Den(b))
DecMul(a, b) == Q(Num(a) * Num(b), Den(a) * Den(b))
DecNeg(a) == Q(-Num(a), Den(a))
DecAbs(a) == Q(Abs(Num(a)), Den(a))
DecIsZero(a) == Num(a) = 0
DecLess(a, b) == Num(a) * Den(b) < Num(b) * Den(a)
DecLeq(a, b) == Num(a) * Den(b) <= Num(b) * Den(a)

\* a / b for b # 0: exact when the quotient has a finite expansion,
\* otherwise rounded to the context precision
DecDiv(a, b) ==
    LET q == Q(Num(a) * Den(b), Den(a) * Num(b))
    IN  IF Terminating(Den(q)) THEN q ELSE <<"r", Num(q), Den(q)>>

\* (a / b) * 100: the factor 100 only shifts the exponent of the rounded
\* quotient, so the product is 100a/b rounded the same way
DecPercent(a, b) ==
    LET q == Q(100 * Num(a) * Den(b), Den(a) * Num(b))
    IN  IF Terminating(Den(q)) THEN q ELSE <<"r", Num(q), Den(q)>>

\* a // b rounding the quotient down, toward minus infinity
DecFloorDiv_down(a, b) ==
    LET n == Num(a) * Den(b)
        d == Den(a) * Num(b)
    IN  Q(IF d > 0 THEN n \div d ELSE (-n) \div (-d), 1)

\* a // b for b # 0: the integer part of the quotient, toward zero
DecFloorDiv(a, b) == Q(TruncDiv(Num(a) * Den(b), Den(a) * Num(b)), 1)

\* a % b for b # 0: a - b * (a // b), the sign follows the dividend
DecMod(a, b) == DecSub(a, DecMul(b, DecFloorDiv(a, b)))

\* float(a): the operand as a binary double
ToFloat(a) == IF Dyadic(Den(a)) THEN a ELSE <<"f", Num(a), Den(a)>>

\* Decimal(pow(float(a), float(b))) for b >= 0
FloatPow(a, b) ==
    LET fa == ToFloat(a)
        fb == ToFloat(b)
    IN  IF IsExact(fa) /\ IsExact(fb) /\ Den(fb) = 1
          THEN Q(IntPow(Num(fa), Num(fb)), IntPow(Den(fa), Num(fb)))
        ELSE IF IsExact(fa) /\ Num(fa) \in {0, Den(fa)} /\ Num(fb) # 0
          THEN fa
        ELSE IF IsExact(fa) /\ fb = Q(1, 2)
                /\ ExactSqrt(Num(fa)) >= 0 /\ ExactSqrt(Den(fa)) >= 0
          THEN Q(ExactSqrt(Num(fa)), ExactSqrt(Den(fa)))
        ELSE <<"pow", Num(a), Den(a), Num(b), Den(b)>>

\* Decimal(pow(float(a), 1 / float(b))) for a >= 0 and b > 0
FloatRoot(a, b) ==
    LET fb == ToFloat(b)
        inv == Q(Den(b), Num(b))
    IN  IF IsExact(fb) /\ Dyadic(Den(inv))
          THEN FloatPow(a, inv)
        ELSE IF Num(a) \in {0, Den(a)} /\ Dyadic(Den(a))
          THEN a
        ELSE <<"pow", Num(a), Den(a), Den(b), Num(b)>>


(***************************************************************************)
(* Results of calls that may raise.  An exception is its class and its    *)
(* message; a message is the sequence of its pieces (the literal text of  *)
(* the f-string, then the characters of what it interpolates).  The       *)
(* messages a caller searches for a phrase are written word by word.      *)
(***************************************************************************)
\* the one element of a set of one element
Only(S) == CHOOSE x \in S : TRUE

NoValue == <<"none">>
Ok(v) == [raised |-> "none", msg |-> <<>>, val |-> v]
Raise(type, message) == [raised |-> type, msg |-> message, val |-> NoValue]

(***************************************************************************)
(* Text.  A string the caller types is a sequence of characters.          *)
(***************************************************************************)
Digits == {"0", "1", "2", "3", "4", "5", "6", "7", "8", "9"}
DigitValue == ("0" :> 0) @@ ("1" :> 1) @@ ("2" :> 2) @@ ("3" :> 3) @@ ("4" :> 4)
              @@ ("5" :> 5) @@ ("6" :> 6) @@ ("7" :> 7) @@ ("8" :> 8) @@ ("9" :> 9)
DigitChar == <<"0", "1", "2", "3", "4", "5", "6", "7", "8", "9">>

\* a strip of the leading blanks only
RECURSIVE Strip_leading(_)
Strip_leading(s) ==
    IF s = <<>> THEN s
    ELSE IF Head(s) = " " THEN Strip_leading(Tail(s))
    ELSE s

\* str.strip(): the text without its leading and trailing blanks
RECURSIVE Strip(_)
Strip(s) ==
    IF s = <<>> THEN s
    ELSE IF Head(s) = " " THEN Strip(Tail(s))
    ELSE IF s[Len(s)] = " " THEN Strip(SubSeq(s, 1, Len(s) - 1))
    ELSE s

\* the integer a digit string spells
RECURSIVE DigitsValue(_)
DigitsValue(s) ==
    IF s = <<>> THEN 0
    ELSE 10 * DigitsValue(SubSeq(s, 1, Len(s) - 1)) + DigitValue[s[Len(s)]]

\* str(n) for an integer n
RECURSIVE NatText(_)
NatText(n) ==
    IF n < 10 THEN <<DigitChar[n + 1]>>
    ELSE NatText(n \div 10) \o <<DigitChar[(n % 10) + 1]>>
IntText(n) == IF n < 0 THEN <<"-">> \o NatText(-n) ELSE NatText(n)

\* Decimal(text): [sign] digits [. digits] with at least one digit; any
\* other text raises decimal.InvalidOperation
ParseDecimal(s) ==
    LET signed == s # <<>> /\ Head(s) \in {"-", "+"}
        body == IF signed THEN Tail(s) ELSE s
        dots == {i \in 1..Len(body) : body[i] = "."}
        wellFormed == /\ \A i \in 1..Len(body) : body[i] \in Digits \cup {"."}
                      /\ Cardinality(dots) <= 1
                      /\ \E i \in 1..Len(body) : body[i] \in Digits
        dot == IF dots = {} THEN Len(body) + 1 ELSE CHOOSE i \in dots : TRUE
        whole == SubSeq(body, 1, dot - 1)
        frac == SubSeq(body, dot + 1, Len(body))
        magnitude == Q(DigitsValue(whole \o frac), IntPow(10, Len(frac)))
    IN  IF ~wellFormed THEN Raise("InvalidOperation", <<"ConversionSyntax">>)
        ELSE IF signed /\ Head(s) = "-" THEN Ok(DecNeg(magnitude))
        ELSE Ok(magnitude)

\* the number of decimal places of the exact decimal with denominator d
Places(d) ==
    CHOOSE k \in 0..9 : /\ IntPow(10, k) % d = 0
                        /\ \A j \in 0..(k - 1) : IntPow(10, j) % d # 0

\* the digits of n, with zeros before them up to k digits
RECURSIVE ZeroFill(_, _)
ZeroFill(text, k) == IF Len(text) >= k THEN text ELSE ZeroFill(<<"0">> \o text, k)

\* str(v) of a decimal: sign, digits, point and decimal places.  The digits
\* of a value that is not an exact decimal (a rounded quotient, a converted
\* float) are not spelled out: its text is represented by the value
DecimalText(v) ==
    IF ~IsExact(v) THEN v
    ELSE LET k == Places(Den(v))
             scaled == Abs(Num(v)) * (IntPow(10, k) \div Den(v))
         IN  (IF Num(v) < 0 THEN <<"-">> ELSE <<>>)
               \o NatText(scaled \div IntPow(10, k))
               \o (IF k = 0 THEN <<>>
                   ELSE <<".">> \o ZeroFill(NatText(scaled % IntPow(10, k)), k))

\* Decimal(cell): of a number the number itself, of a text the decimal it
\* spells
DecimalOf(cell) ==
    IF Len(cell) >= 3 /\ cell[1] \in {"q", "r", "f", "pow"} THEN Ok(cell)
    ELSE ParseDecimal(cell)

\* datetime.isoformat() and datetime.fromisoformat(): a time is a count of
\* ticks, written in digits; any other text raises ValueError
isoformat(t) == NatText(t)
fromisoformat(text) ==
    IF text # <<>> /\ \A i \in 1..Len(text) : text[i] \in Digits
      THEN Ok(DigitsValue(text))
      ELSE Raise("ValueError", <<"Invalid isoformat string: ">> \o text)

\* datetime.now() during the calls of the model, and the time the records
\* of a store found on disk were made
Now == 1
Before == 0

(***************************************************************************)
(* InputValidator.validate_number (input_validators.py).                  *)
(***************************************************************************)
\* the value None, which is not a string
None == <<"None">>

\* str(value) of a text, after the strip of a string; str(None) is 'None'
StrippedText(value) ==
    IF value = None THEN <<"N", "o", "n", "e">> ELSE Strip(value)

\* validate_number refusing a value at the ceiling as well
validate_number_ceiling_excluded(value, max_input_value) ==
    LET stripped == StrippedText(value)
        parsed == ParseDecimal(stripped)
    IN  IF parsed.raised # "none"
          THEN Raise("ValidationError", <<"Invalid number format: ">> \o stripped)
        ELSE IF DecLeq(Q(max_input_value, 1), DecAbs(parsed.val))
          THEN Raise("ValidationError",
                     <<"Input exceeds maximum allowed value: ">>
                        \o IntText(max_input_value))
        ELSE Ok(parsed.val)

validate_number(value, max_input_value) ==
    LET stripped == StrippedText(value)
        parsed == ParseDecimal(stripped)
    IN  IF parsed.raised # "none"
          THEN Raise("ValidationError", <<"Invalid number format: ">> \o stripped)
        ELSE IF DecLess(Q(max_input_value, 1), DecAbs(parsed.val))
          THEN Raise("ValidationError",
                     <<"Input exceeds maximum allowed value: ">>
                        \o IntText(max_input_value))
        ELSE Ok(parsed.val)

(***************************************************************************)
(* The operation catalog (operations.py).  A strategy is an instance of a *)
(* class: cls is the name of its class, which is what str(strategy)       *)
(* returns, and base is the built-in class whose validate_operands and    *)
(* execute it runs (itself, for a built-in class).                        *)
(***************************************************************************)
BuiltInClasses ==
    {"Addition", "Subtraction", "Multiplication", "Division", "Power", "Root",
     "Modulus", "IntegerDivision", "Percentage", "AbsoluteDifference"}

\* OperationFactory._operations: the registry as the program starts
FactoryOperations ==
    ("add" :> "Addition") @@ ("subtract" :> "Subtraction")
    @@ ("multiply" :> "Multiplication") @@ ("divide" :> "Division")
    @@ ("power" :> "Power") @@ ("root" :> "Root") @@ ("modulus" :> "Modulus")
    @@ ("integerdivide" :> "IntegerDivision") @@ ("percentage" :> "Percentage")
    @@ ("absolute" :> "AbsoluteDifference")

\* the classes a caller defines and registers: class divide(Division): pass
\* and the class NewOperation of test_register_operation, whose execute
\* returns a + b; each with the built-in class whose validate_operands and
\* execute it runs
UserClassBase == ("divide" :> "Division") @@ ("NewOperation" :> "Addition")

\* the classes a caller names after the keys of the table of
\* Calculation.calculate, one for each built-in class: class add(Addition):
\* pass and so on
KeyClassBase ==
    ("add" :> "Addition") @@ ("subtract" :> "Subtraction")
    @@ ("multiply" :> "Multiplication") @@ ("divide" :> "Division")
    @@ ("power" :> "Power") @@ ("root" :> "Root") @@ ("modulus" :> "Modulus")
    @@ ("integerdivide" :> "IntegerDivision") @@ ("percentage" :> "Percentage")
    @@ ("absolute" :> "AbsoluteDifference")

\* an instance of a class named after a key
KeyInstance(operation_class) ==
    [cls |-> operation_class, base |-> KeyClassBase[operation_class]]

\* issubclass(operation_class, Operation)
IsOperationClass(operation_class) ==
    operation_class \in BuiltInClasses \cup DOMAIN UserClassBase

\* operation_class(): an instance of the class
Instance(operation_class) ==
    [cls |-> operation_class,
     base |-> IF operation_class \in BuiltInClasses THEN operation_class
              ELSE UserClassBase[operation_class]]

\* str.lower() on the letters of a name
UpperCase == <<"A", "B", "C", "D", "E", "F", "G", "H", "I", "J", "K", "L", "M",
               "N", "O", "P", "Q", "R", "S", "T", "U", "V", "W", "X", "Y", "Z">>
LowerCase == <<"a", "b", "c", "d", "e", "f", "g", "h", "i", "j", "k", "l", "m",
               "n", "o", "p", "q", "r", "s", "t", "u", "v", "w", "x", "y", "z">>
LowerChar(c) ==
    IF \E i \in 1..26 : UpperCase[i] = c
      THEN LowerCase[CHOOSE i \in 1..26 : UpperCase[i] = c]
      ELSE c
Lower(text) == [i \in 1..Len(text) |-> LowerChar(text[i])]

\* the characters of a name as one string, as a key of the registry
RECURSIVE Join(_)
Join(text) == IF text = <<>> THEN "" ELSE Head(text) \o Join(Tail(text))

\* register_operation storing the class under the name as it is written
register_operation_no_lower(operations, name, operation_class) ==
    IF ~IsOperationClass(operation_class)
      THEN [operations |-> operations,
            outcome |-> Raise("TypeError",
                <<"Operation", " ", "class", " ", "must", " ", "be", " ", "a", " ",
                  "subclass", " ", "of", " ", "Operation", ".">>)]
    ELSE [operations |-> (Join(name) :> operation_class) @@ operations,
          outcome |-> Ok(NoValue)]

\* OperationFactory.register_operation: the registry it leaves and what it
\* raises
register_operation(operations, name, operation_class) ==
    IF ~IsOperationClass(operation_class)
      THEN [operations |-> operations,
            outcome |-> Raise("TypeError",
                <<"Operation", " ", "class", " ", "must", " ", "be", " ", "a", " ",
                  "subclass", " ", "of", " ", "Operation", ".">>)]
    ELSE [operations |-> (Join(Lower(name)) :> operation_class) @@ operations,
          outcome |-> Ok(NoValue)]

\* OperationFactory.create_operation: an instance of the class registered
\* under the lower-cased name, or the ValueError of a name that is not a key
create_operation(operations, operation_type) ==
    IF Join(Lower(operation_type)) \notin DOMAIN operations
      THEN Raise("ValueError",
                 <<"Unkown", " ", "operation", " ", "type", ":", " ">>
                    \o operation_type)
    ELSE Ok(Instance(operations[Join(Lower(operation_type))]))

\* OperationFactory.create_operation('add') on the registry as the program
\* starts
AddStrategy == create_operation(FactoryOperations, <<"a", "d", "d">>).val

\* Operation.__str__: the name of the instance's class
OperationStr(strategy) == strategy.cls

\* validate_operands with Power refusing the exponent zero as well
validate_operands_power_zero(base, a, b) ==
    CASE base = "Division" ->
           IF DecIsZero(b)
             THEN Raise("ValidationError", <<"Division by zero is not allowed.">>)
             ELSE Ok(NoValue)
      [] base = "Power" ->
           IF DecLeq(b, Q(0, 1))
             THEN Raise("ValidationError",
                        <<"Negative exponent is not allowed for this operation.">>)
             ELSE Ok(NoValue)
      [] base = "Root" ->
           IF DecLess(a, Q(0, 1))
             THEN Raise("ValidationError",
                        <<"Cannot calculate the root of a negative number.">>)
           ELSE IF DecLeq(b, Q(0, 1))
             THEN Raise("ValidationError", <<"Root degree must be greater than zero.">>)
           ELSE Ok(NoValue)
      [] base = "Modulus" ->
           IF DecIsZero(b)
             THEN Raise("ValidationError", <<"Modulus by zero is not allowed.">>)
             ELSE Ok(NoValue)
      [] base = "IntegerDivision" ->
           IF DecIsZero(b)
             THEN Raise("ValidationError",
                        <<"Integer division by zero is not allowed.">>)
           ELSE IF ~(Den(a) = 1 /\ Den(b) = 1)
             THEN Raise("ValidationError",
                        <<"Both operands must be integers for integer division.">>)
           ELSE Ok(NoValue)
      [] base = "Percentage" ->
           IF DecIsZero(b)
             THEN Raise("ValidationError",
                        <<"Percentage", " ", "value", " ", "cannot", " ", "be", " ",
                          "zero", ".">>)
             ELSE Ok(NoValue)
      [] OTHER -> Ok(NoValue)

\* validate_operands of each class: the ValidationError it raises, or Ok
validate_operands(base, a, b) ==
    CASE base = "Division" ->
           IF DecIsZero(b)
             THEN Raise("ValidationError", <<"Division by zero is not allowed.">>)
             ELSE Ok(NoValue)
      [] base = "Power" ->
           IF DecLess(b, Q(0, 1))
             THEN Raise("ValidationError",
                        <<"Negative exponent is not allowed for this operation.">>)
             ELSE Ok(NoValue)
      [] base = "Root" ->
           IF DecLess(a, Q(0, 1))
             THEN Raise("ValidationError",
                        <<"Cannot calculate the root of a negative number.">>)
           ELSE IF DecLeq(b, Q(0, 1))
             THEN Raise("ValidationError", <<"Root degree must be greater than zero.">>)
           ELSE Ok(NoValue)
      [] base = "Modulus" ->
           IF DecIsZero(b)
             THEN Raise("ValidationError", <<"Modulus by zero is not allowed.">>)
             ELSE Ok(NoValue)
      [] base = "IntegerDivision" ->
           IF DecIsZero(b)
             THEN Raise("ValidationError",
                        <<"Integer division by zero is not allowed.">>)
           ELSE IF ~(Den(a) = 1 /\ Den(b) = 1)
             THEN Raise("ValidationError",
                        <<"Both operands must be integers for integer division.">>)
           ELSE Ok(NoValue)
      [] base = "Percentage" ->
           IF DecIsZero(b)
             THEN Raise("ValidationError",
                        <<"Percentage", " ", "value", " ", "cannot", " ", "be", " ",
                          "zero", ".">>)
             ELSE Ok(NoValue)
      [] OTHER -> Ok(NoValue)

\* the arithmetic with an AbsoluteDifference that keeps the sign
Compute_signed_difference(base, a, b) ==
    CASE base = "Addition" -> DecAdd(a, b)
      [] base = "Subtraction" -> DecSub(a, b)
      [] base = "Multiplication" -> DecMul(a, b)
      [] base = "Division" -> DecDiv(a, b)
      [] base = "Power" -> FloatPow(a, b)
      [] base = "Root" -> FloatRoot(a, b)
      [] base = "Modulus" -> DecMod(a, b)
      [] base = "IntegerDivision" -> DecFloorDiv(a, b)
      [] base = "Percentage" -> DecPercent(a, b)
      [] base = "AbsoluteDifference" -> DecSub(a, b)

\* the arithmetic of each class's execute, after validation
Compute(base, a, b) ==
    CASE base = "Addition" -> DecAdd(a, b)
      [] base = "Subtraction" -> DecSub(a, b)
      [] base = "Multiplication" -> DecMul(a, b)
      [] base = "Division" -> DecDiv(a, b)
      [] base = "Power" -> FloatPow(a, b)
      [] base = "Root" -> FloatRoot(a, b)
      [] base = "Modulus" -> DecMod(a, b)
      [] base = "IntegerDivision" -> DecFloorDiv(a, b)
      [] base = "Percentage" -> DecPercent(a, b)
      [] base = "AbsoluteDifference" -> DecAbs(DecSub(a, b))

\* Operation.execute: validate_operands first, then the arithmetic.  The
\* power of a negative float to an exponent that is not an integer is a
\* complex number, which Decimal() refuses
execute(strategy, a, b) ==
    LET checked == validate_operands(strategy.base, a, b)
    IN  IF checked.raised # "none" THEN checked
        ELSE IF strategy.base = "Power" /\ DecLess(a, Q(0, 1)) /\ Den(b) # 1
          THEN Raise("TypeError",
                     <<"conversion from complex to Decimal is not supported">>)
        ELSE Ok(Compute(strategy.base, a, b))

(***************************************************************************)
(* Calculation (calculation.py): the record of one operation.             *)
(***************************************************************************)
\* the keys of the operations table of Calculation.calculate
CalculationNames ==
    {"add", "subtract", "multiply", "divide", "power", "root", "modulus",
     "integerdivide", "percentage", "absolute"}

\* Calculation.calculate: the table's lambda for the name, or OperationError;
\* the TypeError of Decimal() on a complex power is not among the
\* exceptions calculate catches
calculate(operation, a, b) ==
    IF operation \notin CalculationNames
      THEN Raise("OperationError", <<"Unknown operation: ", operation>>)
    ELSE CASE operation = "add" -> Ok(DecAdd(a, b))
      [] operation = "subtract" -> Ok(DecSub(a, b))
      [] operation = "multiply" -> Ok(DecMul(a, b))
      [] operation = "divide" ->
           IF ~DecIsZero(b) THEN Ok(DecDiv(a, b))
           ELSE Raise("OperationError", <<"Division by zero is not allowed.">>)
      [] operation = "power" ->
           IF DecLeq(Q(0, 1), b) /\ DecLess(a, Q(0, 1)) /\ Den(b) # 1
             THEN Raise("TypeError",
                        <<"conversion from complex to Decimal is not supported">>)
           ELSE IF DecLeq(Q(0, 1), b) THEN Ok(FloatPow(a, b))
           ELSE Raise("OperationError",
                      <<"Negative exponent is not allowed for this operation.">>)
      [] operation = "root" ->
           IF DecLeq(Q(0, 1), a) /\ DecLess(Q(0, 1), b) THEN Ok(FloatRoot(a, b))
           ELSE IF DecLess(a, Q(0, 1))
             THEN Raise("OperationError",
                        <<"Cannot calculate the root of a negative number.">>)
           ELSE Raise("OperationError", <<"Root degree must be greater than zero.">>)
      [] operation = "modulus" ->
           IF ~DecIsZero(b) THEN Ok(DecMod(a, b))
           ELSE Raise("OperationError", <<"Modulus by zero is not allowed.">>)
      [] operation = "integerdivide" ->
           IF ~DecIsZero(b) THEN Ok(DecFloorDiv(a, b))
           ELSE Raise("OperationError",
                      <<"Integer division by zero is not allowed.">>)
      [] operation = "percentage" ->
           IF ~DecIsZero(b) THEN Ok(DecPercent(a, b))
           ELSE Raise("OperationError",
                      <<"Cannot calculate percentage with zero base value.">>)
      [] operation = "absolute" -> Ok(DecAbs(DecSub(a, b)))

\* Calculation(operation, operand1, operand2): __post_init__ stores the
\* result of calculate, or the construction raises what calculate raises
NewCalculation(operation, a, b) ==
    LET computed == calculate(operation, a, b)
    IN  IF computed.raised # "none" THEN computed
        ELSE Ok([operation |-> operation, operand1 |-> a, operand2 |-> b,
                 result |-> computed.val, timestamp |-> Now])

\* Calculation.__eq__: operation, operands and result, not the timestamp
CalculationEq(x, y) ==
    /\ x.operation = y.operation
    /\ x.operand1 = y.operand1
    /\ x.operand2 = y.operand2
    /\ x.result = y.result

\* Calculation.to_dict: the five fields as text
to_dict(calc) ==
    [operation |-> calc.operation,
     operand1 |-> DecimalText(calc.operand1),
     operand2 |-> DecimalText(calc.operand2),
     result |-> DecimalText(calc.result),
     timestamp |-> isoformat(calc.timestamp)]

(***************************************************************************)
(* The persisted store (the CSV file of config.history_file).  A row has  *)
(* the columns operation, operand1, operand2 and result; a numeric cell   *)
(* is the decimal its text spells and BadCell is text that spells no      *)
(* number.  The timestamp column holds text.                              *)
(***************************************************************************)
BadCell == <<"bad">>
NoStore == [exists |-> FALSE, rows |-> <<>>]
StoreOf(rows) == [exists |-> TRUE, rows |-> rows]

\* the row save_history writes for one record
RowOf(calc) ==
    [operation |-> calc.operation, operand1 |-> calc.operand1,
     operand2 |-> calc.operand2, result |-> calc.result,
     timestamp |-> isoformat(calc.timestamp)]

\* Calculator.save_history: the store after the call and what it raises;
\* writable is whether the file system accepts the write
save_history(hist, file, writable) ==
    IF writable
      THEN [store |-> StoreOf([i \in 1..Len(hist) |-> RowOf(hist[i])]),
            outcome |-> Ok(NoValue)]
      ELSE [store |-> file,
            outcome |-> Raise("OperationError",
                              <<"Failed to save history: ", "I/O error">>)]

\* pandas.read_csv types a column by all of its cells: text when a cell
\* is no number, 64-bit integers when every cell is an integer, doubles
\* otherwise; Decimal(cell) is then taken of the typed cell
IsIntegerCell(c) == c[1] = "q" /\ Den(c) = 1
ReadCell(c, column) ==
    IF \E i \in 1..Len(column) : column[i] = BadCell THEN c
    ELSE IF \A i \in 1..Len(column) : IsIntegerCell(column[i]) THEN c
    ELSE IF c[1] \in {"q", "r"} THEN ToFloat(c)
    ELSE c

\* from_dict leaving the record the timestamp of its construction
from_dict_stored_now(data, calc) ==
    IF "timestamp" \notin DOMAIN data
      THEN Raise("OperationError", <<"Invalid calculation data: ", "'timestamp'">>)
    ELSE IF fromisoformat(data.timestamp).raised # "none"
      THEN Raise("OperationError",
                 <<"Invalid calculation data: ">> \o fromisoformat(data.timestamp).msg)
    ELSE IF "result" \notin DOMAIN data
      THEN Raise("OperationError", <<"Invalid calculation data: ", "'result'">>)
    ELSE IF DecimalOf(data.result).raised # "none"
      THEN Raise("OperationError",
                 <<"Invalid calculation data: ">> \o DecimalOf(data.result).msg)
    ELSE Ok(calc)

\* from_dict from the stored timestamp on: the timestamp of the record is
\* replaced by the stored one, and the stored result is only compared
from_dict_stored(data, calc) ==
    IF "timestamp" \notin DOMAIN data
      THEN Raise("OperationError", <<"Invalid calculation data: ", "'timestamp'">>)
    ELSE IF fromisoformat(data.timestamp).raised # "none"
      THEN Raise("OperationError",
                 <<"Invalid calculation data: ">> \o fromisoformat(data.timestamp).msg)
    ELSE IF "result" \notin DOMAIN data
      THEN Raise("OperationError", <<"Invalid calculation data: ", "'result'">>)
    ELSE IF DecimalOf(data.result).raised # "none"
      THEN Raise("OperationError",
                 <<"Invalid calculation data: ">> \o DecimalOf(data.result).msg)
    ELSE Ok([calc EXCEPT !.timestamp = fromisoformat(data.timestamp).val])

\* Calculation.from_dict on a dictionary, or on one row of the frame: a
\* missing key (KeyError), a text that spells no decimal (InvalidOperation)
\* and a text that spells no time (ValueError) are raised again as
\* OperationError; what the construction of the record raises is not
from_dict(data) ==
    IF "operation" \notin DOMAIN data
      THEN Raise("OperationError", <<"Invalid calculation data: ", "'operation'">>)
    ELSE IF "operand1" \notin DOMAIN data
      THEN Raise("OperationError", <<"Invalid calculation data: ", "'operand1'">>)
    ELSE IF DecimalOf(data.operand1).raised # "none"
      THEN Raise("OperationError",
                 <<"Invalid calculation data: ">> \o DecimalOf(data.operand1).msg)
    ELSE IF "operand2" \notin DOMAIN data
      THEN Raise("OperationError", <<"Invalid calculation data: ", "'operand2'">>)
    ELSE IF DecimalOf(data.operand2).raised # "none"
      THEN Raise("OperationError",
                 <<"Invalid calculation data: ">> \o DecimalOf(data.operand2).msg)
    ELSE Only({IF calc.raised # "none" THEN calc ELSE from_dict_stored(data, calc.val) :
                 calc \in {NewCalculation(data.operation,
                                          DecimalOf(data.operand1).val,
                                          DecimalOf(data.operand2).val)}})

\* the rows of the frame read_csv builds from the file
ReadRows(rows) ==
    [i \in 1..Len(rows) |->
        [operation |-> rows[i].operation,
         operand1 |-> ReadCell(rows[i].operand1, [j \in 1..Len(rows) |-> rows[j].operand1]),
         operand2 |-> ReadCell(rows[i].operand2, [j \in 1..Len(rows) |-> rows[j].operand2]),
         result |-> ReadCell(rows[i].result, [j \in 1..Len(rows) |-> rows[j].result]),
         timestamp |-> rows[i].timestamp]]

\* load_history keeping the rows read before the first one that raised
load_rows_partial(hist, loaded) ==
    LET failed == {i \in 1..Len(loaded) : loaded[i].raised # "none"}
        first == CHOOSE i \in failed : \A k \in failed : i <= k
    IN  IF failed = {}
          THEN [history |-> [i \in 1..Len(loaded) |-> loaded[i].val],
                outcome |-> Ok(NoValue)]
          ELSE [history |-> [i \in 1..(first - 1) |-> loaded[i].val],
                outcome |-> Raise("OperationError",
                                  <<"Failed to load history: ">>
                                     \o loaded[first].msg)]

\* load_history once every row of the frame has gone through from_dict:
\* the history is replaced when no row raised, and otherwise kept while the
\* first exception is raised again as OperationError
load_rows(hist, loaded) ==
    LET failed == {i \in 1..Len(loaded) : loaded[i].raised # "none"}
    IN  IF failed = {}
          THEN [history |-> [i \in 1..Len(loaded) |-> loaded[i].val],
                outcome |-> Ok(NoValue)]
          ELSE [history |-> hist,
                outcome |-> Raise("OperationError",
                                  <<"Failed to load history: ">>
                                     \o loaded[CHOOSE i \in failed :
                                                  \A k \in failed : i <= k].msg)]

\* load_history leaving an empty history when it raises
load_history_emptied(hist, file) ==
    IF ~file.exists \/ file.rows = <<>>
      THEN [history |-> hist, outcome |-> Ok(NoValue)]
    ELSE CHOOSE r \in {IF done.outcome.raised = "none" THEN done
                       ELSE [done EXCEPT !.history = <<>>] :
                         done \in {load_rows(hist, loaded) :
                           loaded \in {[i \in 1..Len(frame) |-> from_dict(frame[i])] :
                                         frame \in {ReadRows(file.rows)}}}} : TRUE

\* Calculator.load_history: the history after the call and what it raises
load_history(hist, file) ==
    IF ~file.exists \/ file.rows = <<>>
      THEN [history |-> hist, outcome |-> Ok(NoValue)]
    ELSE CHOOSE r \in {load_rows(hist, loaded) :
                         loaded \in {[i \in 1..Len(frame) |-> from_dict(frame[i])] :
                                       frame \in {ReadRows(file.rows)}}} : TRUE

(***************************************************************************)
(* The Calculator (calculator.py).                                        *)
(***************************************************************************)
VARIABLES
    history,             \* Calculator.history: the records, oldest first
    undo_stack,          \* Calculator.undo_stack: each memento's history
    redo_stack,          \* Calculator.redo_stack: each memento's history
    operation_strategy,  \* Calculator.operation_strategy, or NoStrategy
    observers,           \* Calculator.observers, in registration order
    auto_save,           \* config.auto_save
    store,               \* the file config.history_file
    last,                \* the last call made: what it found and its outcome
    script,              \* how far the calls made follow test_redo_operation
    registry,            \* OperationFactory._operations
    probe,               \* the last call made on the catalog, the factory or
                         \* the validator: its arguments and its outcome
    objects              \* the list objects behind history and the mementos,
                         \* where the calls are followed object by object

vars == <<history, undo_stack, redo_stack, operation_strategy, observers,
          auto_save, store, last, script, registry, probe, objects>>

NoStrategy == [cls |-> "None", base |-> "None"]

\* the strategies a caller passes to set_operation: instances of built-in
\* classes as the factory creates them, and an instance of a subclass a
\* caller defines under the name divide (class divide(Division): pass),
\* whose str() is "divide"
BuiltInStrategies == {AddStrategy}
UserStrategies == {Instance("divide")}
Strategies == BuiltInStrategies \cup UserStrategies

\* the operands of the calls of the tests: both in range
TestPair == <<<<"2">>, <<" ", "2">>>>

\* the operand pairs a caller passes to perform_operation, as the text of
\* each operand: in range, zero divisor, not a number, beyond the ceiling
RawPairs ==
    {TestPair, <<<<"2">>, <<"0">>>>,
     <<<<"f", "i", "v", "e">>, <<"2">>>>, <<<<"2">>, <<"9">>>>}

\* the calls of perform_operation: the operand pair, and whether the file
\* system accepts a write of the history file during the call
PerformCalls == {<<p, TRUE>> : p \in RawPairs} \cup {<<TestPair, FALSE>>}

\* the operand texts of the model
RawTexts == {p[1] : p \in RawPairs} \cup {p[2] : p \in RawPairs}

\* InputValidator.validate_number(text, self.config) of each operand text
ValidatedInput == [t \in RawTexts |-> validate_number(t, MaxInputValue)]

ObserverKinds == {"LoggingObserver", "AutoSaverObserver"}

\* the call an undo or a redo comes straight after, when that call was a
\* perform_operation that returned, an undo that restored a snapshot, a
\* clear_history or a load_history
Follows(op) ==
    IF op \notin {"undo", "redo"} THEN ""
    ELSE IF last.op = "perform_operation" /\ last.raised = "none"
      THEN "perform_operation"
    ELSE IF last.op = "undo" /\ last.ret THEN "undo"
    ELSE IF last.op = "clear_history" THEN "clear_history"
    ELSE IF last.op = "load_history" THEN "load_history"
    ELSE ""

\* the history and the two stacks of the calculator
Containers ==
    [history |-> history, undo_stack |-> undo_stack, redo_stack |-> redo_stack]

\* None passed where a Calculation is expected
NoCalculation == [operation |-> "None"]

\* what a call leaves in last: its name, what it raised or returned, the
\* exception as it was first raised inside the call (cause), and the
\* history and the stacks the call found; a call that takes an observer or
\* a calculation, or that reaches observers, adds them: the observer and
\* the calculation passed, each update made with what it was handed and
\* the history it could read (notified), and the number of calls of
\* save_history that the updates made (saves)
Call(op, outcome, cause, flag) ==
    [op |-> op, raised |-> outcome.raised, msg |-> outcome.msg,
     val |-> outcome.val, ret |-> flag,
     cause |-> [raised |-> cause.raised, msg |-> cause.msg],
     pre |-> Containers,
     follows |-> Follows(op),
     observer |-> "None", calculation |-> NoCalculation,
     notified |-> <<>>, saves |-> 0]

\* what a call on the catalog, the factory or the validator leaves in
\* probe: its name, its arguments (the class and the operands of an execute,
\* the text and the class of the others), what it raised or returned, and
\* the registry it found
NoProbe ==
    [op |-> "none", cls |-> "None", a |-> NoValue, b |-> NoValue, text |-> <<>>,
     calc |-> NoStrategy, data |-> <<>>,
     raised |-> "none", msg |-> <<>>, val |-> NoValue, made |-> NoStrategy,
     pre |-> FactoryOperations]

\* no list object is followed
NoObjects == [op |-> "none"]

\* test_redo_operation: on a calculator built in an empty directory,
\* set_operation(create_operation('add')), perform_operation, undo, redo.
\* script counts the calls made while they are exactly the first calls of
\* the test, and is -1 once they are not
Scripted(position, matches) ==
    script' = IF script = position - 1 /\ matches THEN position ELSE -1

\* rows of the stores a calculator may find on disk when it is constructed
RowAdd == [operation |-> "add", operand1 |-> Q(2, 1), operand2 |-> Q(2, 1),
           result |-> Q(4, 1), timestamp |-> isoformat(Before)]
RowAddition == [operation |-> "Addition", operand1 |-> Q(2, 1),
                operand2 |-> Q(0, 1), result |-> Q(2, 1),
                timestamp |-> isoformat(Before)]
InitialStores ==
    {NoStore, StoreOf(<<>>), StoreOf(<<RowAddition>>), StoreOf(<<RowAdd, RowAddition>>)}
      \cup {StoreOf([i \in 1..k |-> RowAdd]) : k \in 1..MaxStoreRows}

\* the observers start_calculator_repl registers on the calculator it builds
ReplObservers == <<"LoggingObserver", "AutoSaverObserver">>

\* Calculator.__init__ on one of the stores, with auto_save one of autoSaves:
\* empty history and stacks, no strategy, then load_history, whose failure
\* is only logged (it is the cause that last keeps, while the constructor
\* returns); the caller then registers one of the observer lists
InitWith(stores, observerLists, autoSaves) ==
    /\ store \in stores
    /\ auto_save \in autoSaves
    /\ undo_stack = <<>>
    /\ redo_stack = <<>>
    /\ operation_strategy = NoStrategy
    /\ observers \in observerLists
    /\ \E loaded \in {load_history(<<>>, store)} :
          /\ history = loaded.history
          /\ last = [op |-> "init", raised |-> "none", msg |-> <<>>,
                     val |-> NoValue, ret |-> FALSE,
                     cause |-> [raised |-> loaded.outcome.raised,
                                msg |-> loaded.outcome.msg],
                     pre |-> [history |-> <<>>, undo_stack |-> <<>>,
                              redo_stack |-> <<>>],
                     follows |-> "",
                     observer |-> "None", calculation |-> NoCalculation,
                     notified |-> <<>>, saves |-> 0]
    /\ script = IF store = NoStore /\ observers = <<>> THEN 0 ELSE -1
    /\ registry = FactoryOperations

\* a calculator as a library caller constructs it (no observer) or as the
\* REPL sets it up, with auto_save at its default
Init ==
    /\ InitWith(InitialStores, {<<>>, ReplObservers}, {TRUE})
    /\ probe = NoProbe
    /\ objects = NoObjects

\* Calculator.set_operation
SetOperation(s) ==
    /\ operation_strategy' = s
    /\ last' = Call("set_operation", Ok(NoValue), Ok(NoValue), FALSE)
    /\ Scripted(1, s = AddStrategy)
    /\ UNCHANGED <<history, undo_stack, redo_stack, observers, auto_save, store,
                   registry, probe, objects>>

\* Calculator.add_observer
AddObserver(kind) ==
    /\ Len(observers) < MaxObservers
    /\ observers' = Append(observers, kind)
    /\ last' = [Call("add_observer", Ok(NoValue), Ok(NoValue), FALSE)
                   EXCEPT !.observer = kind]
    /\ Scripted(0, FALSE)
    /\ UNCHANGED <<history, undo_stack, redo_stack, operation_strategy, auto_save,
                   store,
                   registry, probe, objects>>

\* list.remove: the list without the first occurrence of x
RemoveFirst(list, x) ==
    LET at == CHOOSE i \in 1..Len(list) :
                 list[i] = x /\ \A j \in 1..(i - 1) : list[j] # x
    IN  SubSeq(list, 1, at - 1) \o SubSeq(list, at + 1, Len(list))

\* Calculator.remove_observer
RemoveObserver(kind) ==
    /\ IF \E i \in 1..Len(observers) : observers[i] = kind
         THEN /\ observers' = RemoveFirst(observers, kind)
              /\ last' = [Call("remove_observer", Ok(NoValue), Ok(NoValue), FALSE)
                             EXCEPT !.observer = kind]
         ELSE /\ observers' = observers
              /\ last' = [Call("remove_observer",
                               Raise("ValueError", <<"list.remove(x): x not in list">>),
                               Raise("ValueError", <<"list.remove(x): x not in list">>),
                               FALSE)
                             EXCEPT !.observer = kind]
    /\ Scripted(0, FALSE)
    /\ UNCHANGED <<history, undo_stack, redo_stack, operation_strategy, auto_save,
                   store,
                   registry, probe, objects>>

\* update saving whatever config.auto_save says
update_always_saves(observer, calculation, hist, file, writable) ==
    IF calculation = NoCalculation
      THEN [store |-> file, saves |-> 0,
            outcome |-> Raise("AttributeError", <<"Calculation cannot be None">>)]
    ELSE IF observer = "AutoSaverObserver"
      THEN Only({[store |-> saved.store, saves |-> 1, outcome |-> saved.outcome] :
                   saved \in {save_history(hist, file, writable)}})
    ELSE [store |-> file, saves |-> 0, outcome |-> Ok(NoValue)]

\* LoggingObserver.update and AutoSaverObserver.update, on a calculator
\* whose history is hist: the store after the call, the calls of
\* save_history made and what the call raises
update(observer, calculation, hist, file, writable) ==
    IF calculation = NoCalculation
      THEN [store |-> file, saves |-> 0,
            outcome |-> Raise("AttributeError", <<"Calculation cannot be None">>)]
    ELSE IF observer = "AutoSaverObserver" /\ auto_save
      THEN Only({[store |-> saved.store, saves |-> 1, outcome |-> saved.outcome] :
                   saved \in {save_history(hist, file, writable)}})
    ELSE [store |-> file, saves |-> 0, outcome |-> Ok(NoValue)]

\* one call of update made by notify_observers
Notification(observer, calculation, hist) ==
    [observer |-> observer, calculation |-> calculation, history |-> hist]

\* Calculator.notify_observers: each observer's update in registration
\* order; an update that raises ends the loop
RECURSIVE notify_observers(_, _, _, _, _)
notify_observers(obs, calculation, hist, file, writable) ==
    IF obs = <<>>
      THEN [store |-> file, outcome |-> Ok(NoValue), notified |-> <<>>, saves |-> 0]
    ELSE Only({IF updated.outcome.raised # "none"
                 THEN [store |-> updated.store, outcome |-> updated.outcome,
                       notified |-> <<Notification(Head(obs), calculation, hist)>>,
                       saves |-> updated.saves]
               ELSE Only({[rest EXCEPT
                             !.notified = <<Notification(Head(obs), calculation, hist)>> \o @,
                             !.saves = updated.saves + @] :
                            rest \in {notify_observers(Tail(obs), calculation, hist,
                                                       updated.store, writable)}}) :
                 updated \in {update(Head(obs), calculation, hist, file, writable)}})

\* except clauses that wrap whatever is raised, a ValidationError too
ReraiseWrapped(e) ==
    Raise("OperationError", <<"Operation failed: ">> \o e.msg)

\* the except clauses of perform_operation: a ValidationError is raised
\* again as it is, anything else as OperationError
Reraise(e) ==
    IF e.raised = "ValidationError" THEN e
    ELSE Raise("OperationError", <<"Operation failed: ">> \o e.msg)

\* the history after the append and the trim of perform_operation
AppendAndTrim(hist, calc) ==
    LET appended == Append(hist, calc)
    IN  IF Len(appended) > MaxHistorySize THEN Tail(appended) ELSE appended

\* perform_operation saving the snapshot after the append instead of
\* before it
record_calculation_snapshot_late(hist, undo, redo, calc) ==
    [history |-> AppendAndTrim(hist, calc),
     undo_stack |-> Append(undo, AppendAndTrim(hist, calc)),
     redo_stack |-> <<>>]

\* perform_operation without the clear of the redo stack
record_calculation_redo_kept(hist, undo, redo, calc) ==
    [history |-> AppendAndTrim(hist, calc),
     undo_stack |-> Append(undo, hist),
     redo_stack |-> redo]

\* the history and the stacks after perform_operation has saved the
\* snapshot, cleared the redo stack and recorded the calculation
record_calculation(hist, undo, redo, calc) ==
    [history |-> AppendAndTrim(hist, calc),
     undo_stack |-> Append(undo, hist),
     redo_stack |-> <<>>]

\* what perform_operation hands back when it raises before it has touched
\* the history: the exception that reaches the caller and the exception as
\* it was raised
Untouched(outcome, cause) ==
    [state |-> [history |-> history, undo_stack |-> undo_stack,
                redo_stack |-> redo_stack, store |-> store],
     outcome |-> outcome, cause |-> cause, notified |-> <<>>, saves |-> 0]

\* perform_operation from the notification on: the observers are notified
\* of the calculation once the history and the stacks hold it
perform_notify(result, recorded, notified) ==
    [state |-> [history |-> recorded.history, undo_stack |-> recorded.undo_stack,
                redo_stack |-> recorded.redo_stack, store |-> notified.store],
     outcome |-> IF notified.outcome.raised # "none"
                   THEN Reraise(notified.outcome) ELSE result,
     cause |-> IF notified.outcome.raised # "none"
                 THEN notified.outcome ELSE result,
     notified |-> notified.notified, saves |-> notified.saves]

\* perform_operation notifying the observers before it records the
\* calculation
perform_record_notify_first(result, calculation, writable) ==
    IF calculation.raised # "none"
      THEN Untouched(Reraise(calculation), calculation)
    ELSE Only({Only({perform_notify(result, recorded, notified) :
                       notified \in {notify_observers(observers, calculation.val,
                                                      history, store, writable)}}) :
                 recorded \in {record_calculation(history, undo_stack, redo_stack,
                                                  calculation.val)}})

\* perform_operation from the snapshot on
perform_record(result, calculation, writable) ==
    IF calculation.raised # "none"
      THEN Untouched(Reraise(calculation), calculation)
    ELSE Only({Only({perform_notify(result, recorded, notified) :
                       notified \in {notify_observers(observers, calculation.val,
                                                      recorded.history, store,
                                                      writable)}}) :
                 recorded \in {record_calculation(history, undo_stack, redo_stack,
                                                  calculation.val)}})

\* perform_operation from the execution of the strategy on
perform_execute(va, vb, result, writable) ==
    IF result.raised # "none" THEN Untouched(Reraise(result), result)
    ELSE Only({perform_record(result, calculation, writable) :
                 calculation \in {NewCalculation(OperationStr(operation_strategy),
                                                 va.val, vb.val)}})

\* perform_operation from the validation of the inputs on
perform_validate(va, vb, writable) ==
    IF va.raised # "none" THEN Untouched(Reraise(va), va)
    ELSE IF vb.raised # "none" THEN Untouched(Reraise(vb), vb)
    ELSE Only({perform_execute(va, vb, result, writable) :
                 result \in {execute(operation_strategy, va.val, vb.val)}})

\* perform_operation validating its inputs before it looks for a strategy
perform_operation_inputs_first(a, b, writable) ==
    Only({IF va.raised # "none" THEN Untouched(Reraise(va), va)
          ELSE IF vb.raised # "none" THEN Untouched(Reraise(vb), vb)
          ELSE IF operation_strategy = NoStrategy
            THEN Only({Untouched(unset, unset) :
                         unset \in {Raise("OperationError",
                            <<"No operation set. Please set an operation before performing calculations.">>)}})
          ELSE perform_validate(va, vb, writable) :
            va \in {ValidatedInput[a]}, vb \in {ValidatedInput[b]}})

\* Calculator.perform_operation: the state it leaves, what it returns or
\* raises, and the exception as it was raised inside the call
perform_operation(a, b, writable) ==
    IF operation_strategy = NoStrategy
      THEN Only({Untouched(unset, unset) :
                   unset \in {Raise("OperationError",
                      <<"No operation set. Please set an operation before performing calculations.">>)}})
    ELSE Only({perform_validate(va, vb, writable) :
                 va \in {ValidatedInput[a]}, vb \in {ValidatedInput[b]}})

\* perform_operation from the execution of a strategy to the record, on
\* validated operands: what it returns or raises and the record it makes
perform_result(strategy, a, b) ==
    Only({IF result.raised # "none"
            THEN [outcome |-> Reraise(result), calculation |-> NoCalculation]
          ELSE Only({IF calculation.raised # "none"
                       THEN [outcome |-> Reraise(calculation),
                             calculation |-> NoCalculation]
                     ELSE [outcome |-> result, calculation |-> calculation.val] :
                       calculation \in {NewCalculation(OperationStr(strategy), a, b)}}) :
            result \in {execute(strategy, a, b)}})

PerformOperation(a, b, writable) ==
    \E done \in {perform_operation(a, b, writable)} :
        /\ Len(done.state.undo_stack) + Len(done.state.redo_stack) <= MaxSnapshots
        /\ history' = done.state.history
        /\ undo_stack' = done.state.undo_stack
        /\ redo_stack' = done.state.redo_stack
        /\ store' = done.state.store
        /\ last' = [Call("perform_operation", done.outcome, done.cause, FALSE)
                       EXCEPT !.notified = done.notified, !.saves = done.saves]
        /\ Scripted(2, <<a, b>> = TestPair)
        /\ UNCHANGED <<operation_strategy, observers, auto_save,
                   registry, probe, objects>>

\* undo without the test of the stack: with nothing to pop it empties the
\* history and reports success
UndoUnguarded ==
    /\ IF undo_stack = <<>>
         THEN /\ history' = <<>>
              /\ UNCHANGED <<undo_stack, redo_stack>>
              /\ last' = Call("undo", Ok(NoValue), Ok(NoValue), TRUE)
         ELSE /\ undo_stack' = SubSeq(undo_stack, 1, Len(undo_stack) - 1)
              /\ redo_stack' = Append(redo_stack, history)
              /\ history' = undo_stack[Len(undo_stack)]
              /\ last' = Call("undo", Ok(NoValue), Ok(NoValue), TRUE)
    /\ Scripted(3, TRUE)
    /\ UNCHANGED <<operation_strategy, observers, auto_save, store,
                   registry, probe, objects>>

\* Calculator.undo
Undo ==
    /\ IF undo_stack = <<>>
         THEN /\ UNCHANGED <<history, undo_stack, redo_stack>>
              /\ last' = Call("undo", Ok(NoValue), Ok(NoValue), FALSE)
         ELSE /\ undo_stack' = SubSeq(undo_stack, 1, Len(undo_stack) - 1)
              /\ redo_stack' = Append(redo_stack, history)
              /\ history' = undo_stack[Len(undo_stack)]
              /\ last' = Call("undo", Ok(NoValue), Ok(NoValue), TRUE)
    /\ Scripted(3, TRUE)
    /\ UNCHANGED <<operation_strategy, observers, auto_save, store,
                   registry, probe, objects>>

\* redo saving the history it has restored
RedoSaving ==
    /\ IF redo_stack = <<>>
         THEN /\ UNCHANGED <<history, undo_stack, redo_stack, store>>
              /\ last' = Call("redo", Ok(NoValue), Ok(NoValue), FALSE)
         ELSE /\ redo_stack' = SubSeq(redo_stack, 1, Len(redo_stack) - 1)
              /\ undo_stack' = Append(undo_stack, history)
              /\ history' = redo_stack[Len(redo_stack)]
              /\ store' = save_history(redo_stack[Len(redo_stack)], store, TRUE).store
              /\ last' = [Call("redo", Ok(NoValue), Ok(NoValue), TRUE)
                             EXCEPT !.saves = 1]
    /\ Scripted(4, TRUE)
    /\ UNCHANGED <<operation_strategy, observers, auto_save,
                   registry, probe, objects>>

\* Calculator.redo
Redo ==
    /\ IF redo_stack = <<>>
         THEN /\ UNCHANGED <<history, undo_stack, redo_stack>>
              /\ last' = Call("redo", Ok(NoValue), Ok(NoValue), FALSE)
         ELSE /\ redo_stack' = SubSeq(redo_stack, 1, Len(redo_stack) - 1)
              /\ undo_stack' = Append(undo_stack, history)
              /\ history' = redo_stack[Len(redo_stack)]
              /\ last' = Call("redo", Ok(NoValue), Ok(NoValue), TRUE)
    /\ Scripted(4, TRUE)
    /\ UNCHANGED <<operation_strategy, observers, auto_save, store,
                   registry, probe, objects>>

\* clear_history clearing the history and the redo stack only
ClearHistoryUndoKept ==
    /\ history' = <<>>
    /\ redo_stack' = <<>>
    /\ UNCHANGED undo_stack
    /\ last' = Call("clear_history", Ok(NoValue), Ok(NoValue), FALSE)
    /\ Scripted(0, FALSE)
    /\ UNCHANGED <<operation_strategy, observers, auto_save, store,
                   registry, probe, objects>>

\* Calculator.clear_history
ClearHistory ==
    /\ history' = <<>>
    /\ undo_stack' = <<>>
    /\ redo_stack' = <<>>
    /\ last' = Call("clear_history", Ok(NoValue), Ok(NoValue), FALSE)
    /\ Scripted(0, FALSE)
    /\ UNCHANGED <<operation_strategy, observers, auto_save, store,
                   registry, probe, objects>>

\* Calculator.save_history, called by the user
SaveHistory(writable) ==
    \E saved \in {save_history(history, store, writable)} :
        /\ store' = saved.store
        /\ last' = Call("save_history", saved.outcome, saved.outcome, FALSE)
        /\ Scripted(0, FALSE)
        /\ UNCHANGED <<history, undo_stack, redo_stack, operation_strategy,
                       observers, auto_save,
                   registry, probe, objects>>

\* Calculator.load_history, called by the user
LoadHistory ==
    \E loaded \in {load_history(history, store)} :
        /\ history' = loaded.history
        /\ last' = Call("load_history", loaded.outcome, loaded.outcome, FALSE)
        /\ Scripted(0, FALSE)
        /\ UNCHANGED <<undo_stack, redo_stack, operation_strategy, observers,
                       auto_save, store,
                   registry, probe, objects>>

\* the calls on the history, the stacks and the strategy
Next ==
    \/ \E s \in Strategies : SetOperation(s)
    \/ \E c \in PerformCalls : PerformOperation(c[1][1], c[1][2], c[2])
    \/ Undo
    \/ Redo
    \/ ClearHistory
    \/ LoadHistory

Spec == Init /\ [][Next]_vars

(***************************************************************************)
(* The observers of a calculator (calculator.py, history.py): a caller    *)
(* registers and removes them, performs operations, and calls update on   *)
(* an observer directly as the tests of history.py do.                    *)
(***************************************************************************)
\* test_history.py: the calculation the tests hand to update
calculation_mock ==
    [operation |-> "Addition", operand1 |-> Q(6, 1), operand2 |-> Q(2, 1),
     result |-> Q(8, 1), timestamp |-> Now]

\* the values update is called with: a calculation, None
UpdateArguments == {calculation_mock, NoCalculation}

\* observer.update(calculation), called on an observer of this calculator
Update(observer, calculation, writable) ==
    \E updated \in {update(observer, calculation, history, store, writable)} :
        /\ store' = updated.store
        /\ last' = [Call("update", updated.outcome, updated.outcome, FALSE)
                       EXCEPT !.observer = observer, !.calculation = calculation,
                              !.saves = updated.saves]
        /\ Scripted(0, FALSE)
        /\ UNCHANGED <<history, undo_stack, redo_stack, operation_strategy,
                       observers, auto_save, registry, probe, objects>>

\* a calculator built in an empty directory or on a store that fills its
\* history, with auto_save on or off
InitObservers ==
    /\ InitWith({NoStore, StoreOf([i \in 1..MaxHistorySize |-> RowAdd])},
                {<<>>}, {TRUE, FALSE})
    /\ probe = NoProbe
    /\ objects = NoObjects

NextObservers ==
    \/ \E kind \in ObserverKinds : AddObserver(kind)
    \/ \E kind \in ObserverKinds : RemoveObserver(kind)
    \/ \E s \in Strategies : SetOperation(s)
    \/ \E c \in PerformCalls : PerformOperation(c[1][1], c[1][2], c[2])
    \/ \E kind \in ObserverKinds, calculation \in UpdateArguments,
          writable \in BOOLEAN : Update(kind, calculation, writable)

SpecObservers == InitObservers /\ [][NextObservers]_vars

(***************************************************************************)
(* A session on a calculator built in an empty directory: every public    *)
(* method that changes the calculator, with a strategy whose calculations *)
(* succeed.                                                               *)
(***************************************************************************)
\* the calls of perform_operation of a session: operands in range, and a
\* zero divisor
SessionCalls == {<<TestPair, TRUE>>, <<<<<<"2">>, <<"0">>>>, TRUE>>}

InitSession ==
    /\ InitWith({NoStore}, {<<>>}, {TRUE})
    /\ probe = NoProbe
    /\ objects = NoObjects

NextSession ==
    \/ \E kind \in ObserverKinds : AddObserver(kind)
    \/ \E kind \in ObserverKinds : RemoveObserver(kind)
    \/ \E s \in UserStrategies : SetOperation(s)
    \/ \E c \in SessionCalls : PerformOperation(c[1][1], c[1][2], c[2])
    \/ Undo
    \/ Redo
    \/ ClearHistory
    \/ SaveHistory(TRUE)
    \/ LoadHistory

SpecSession == InitSession /\ [][NextSession]_vars

(***************************************************************************)
(* The list objects of a calculator (calculator.py, calculator_memento.py).*)
(* history and each memento's history are references to list objects:     *)
(* lists[id] is the content of the list id, a record is the number of     *)
(* its creation, and a memento also keeps the content its list had when   *)
(* the memento was created (made).  Lists no reference reaches are        *)
(* dropped.  The calls are those that succeed in changing history.        *)
(***************************************************************************)
\* CalculatorMemento(self.history): the memento sharing the live list
Snapshot_shared(o) ==
    [lists |-> o.lists,
     memento |-> [history |-> o.history, made |-> o.lists[o.history]]]

\* CalculatorMemento(self.history.copy()): the lists with the copy, and the
\* memento that refers to it
Snapshot(o) ==
    [lists |-> Append(o.lists, o.lists[o.history]),
     memento |-> [history |-> Len(o.lists) + 1, made |-> o.lists[o.history]]]

\* the records of history and of each memento's list
ListContents(o) ==
    [history |-> o.lists[o.history],
     undo_stack |-> [i \in 1..Len(o.undo_stack) |->
                       o.lists[o.undo_stack[i].history]],
     redo_stack |-> [i \in 1..Len(o.redo_stack) |->
                       o.lists[o.redo_stack[i].history]]]

\* the lists that history and the mementos still refer to, numbered in the
\* order history, undo stack, redo stack
Collected(o) ==
    LET refs == <<o.history>>
                  \o [i \in 1..Len(o.undo_stack) |-> o.undo_stack[i].history]
                  \o [i \in 1..Len(o.redo_stack) |-> o.redo_stack[i].history]
        First(x) == CHOOSE i \in 1..Len(refs) :
                       refs[i] = x /\ \A j \in 1..(i - 1) : refs[j] # x
    IN  [o EXCEPT !.lists = [i \in 1..Len(refs) |-> o.lists[refs[i]]],
                  !.history = First(o.history),
                  !.undo_stack = [i \in 1..Len(o.undo_stack) |->
                                    [o.undo_stack[i] EXCEPT !.history = First(@)]],
                  !.redo_stack = [i \in 1..Len(o.redo_stack) |->
                                    [o.redo_stack[i] EXCEPT !.history = First(@)]]]

\* perform_operation dropping the oldest memento once the undo stack holds
\* more than max_history_size
perform_operation_lists_capped(o) ==
    LET snapshot == Snapshot(o)
        appended == Append(snapshot.lists[o.history], o.created + 1)
        pushed == Append(o.undo_stack, snapshot.memento)
    IN  [o EXCEPT !.lists = [snapshot.lists EXCEPT
                               ![o.history] = IF Len(appended) > MaxHistorySize
                                                THEN Tail(appended) ELSE appended],
                  !.undo_stack = IF Len(pushed) > MaxHistorySize
                                   THEN Tail(pushed) ELSE pushed,
                  !.redo_stack = <<>>,
                  !.created = @ + 1]

\* perform_operation once the calculation is created: the memento of a
\* copy of history is pushed, the redo stack cleared, the record appended
\* to the live list and the oldest record popped from it
perform_operation_lists(o) ==
    LET snapshot == Snapshot(o)
        appended == Append(snapshot.lists[o.history], o.created + 1)
    IN  [o EXCEPT !.lists = [snapshot.lists EXCEPT
                               ![o.history] = IF Len(appended) > MaxHistorySize
                                                THEN Tail(appended) ELSE appended],
                  !.undo_stack = Append(@, snapshot.memento),
                  !.redo_stack = <<>>,
                  !.created = @ + 1]

\* undo pushing the memento it popped on the redo stack
undo_lists_pushes_popped(o) ==
    IF o.undo_stack = <<>> THEN [objects |-> o, ret |-> FALSE]
    ELSE LET memento == o.undo_stack[Len(o.undo_stack)]
         IN  [objects |->
                [o EXCEPT !.lists = Append(o.lists, o.lists[memento.history]),
                          !.undo_stack = SubSeq(@, 1, Len(@) - 1),
                          !.redo_stack = Append(@, memento),
                          !.history = Len(o.lists) + 1],
              ret |-> TRUE]

\* Calculator.undo: the memento popped, a memento of a copy of history
\* pushed on the redo stack, and history set to a copy of the popped list
undo_lists(o) ==
    IF o.undo_stack = <<>> THEN [objects |-> o, ret |-> FALSE]
    ELSE LET memento == o.undo_stack[Len(o.undo_stack)]
             snapshot == Snapshot(o)
         IN  [objects |->
                [o EXCEPT !.lists = Append(snapshot.lists,
                                           snapshot.lists[memento.history]),
                          !.undo_stack = SubSeq(@, 1, Len(@) - 1),
                          !.redo_stack = Append(@, snapshot.memento),
                          !.history = Len(snapshot.lists) + 1],
              ret |-> TRUE]

\* Calculator.redo
redo_lists(o) ==
    IF o.redo_stack = <<>> THEN [objects |-> o, ret |-> FALSE]
    ELSE LET memento == o.redo_stack[Len(o.redo_stack)]
             snapshot == Snapshot(o)
         IN  [objects |->
                [o EXCEPT !.lists = Append(snapshot.lists,
                                           snapshot.lists[memento.history]),
                          !.redo_stack = SubSeq(@, 1, Len(@) - 1),
                          !.undo_stack = Append(@, snapshot.memento),
                          !.history = Len(snapshot.lists) + 1],
              ret |-> TRUE]

\* Calculator.clear_history: the live list and the two stacks are cleared
\* in place
clear_history_lists(o) ==
    [o EXCEPT !.lists = [@ EXCEPT ![o.history] = <<>>],
              !.undo_stack = <<>>,
              !.redo_stack = <<>>]

\* Calculator.load_history on a store of n rows (n > 0): history is set to
\* a new list of new records
load_history_lists(o, n) ==
    [o EXCEPT !.lists = Append(@, [i \in 1..n |-> o.created + i]),
              !.history = Len(o.lists) + 1,
              !.created = @ + n]

\* what is kept of the calls made since the calculator was constructed or
\* cleared, while they are perform_operation calls followed by undo calls
\* only: the history at the start and after each perform_operation
\* (trail) and the number of undo calls made (undone)
Run(o, op, done) ==
    IF op \in {"init", "clear_history"}
      THEN [intact |-> TRUE, trail |-> <<done.lists[done.history]>>, undone |-> 0]
    ELSE IF op = "perform_operation" /\ o.run.intact /\ o.run.undone = 0
      THEN [o.run EXCEPT !.trail = Append(@, done.lists[done.history])]
    ELSE IF op = "undo" /\ o.run.intact /\ o.run.undone < Len(o.run.trail)
      THEN [o.run EXCEPT !.undone = @ + 1]
    ELSE [intact |-> FALSE, trail |-> <<>>, undone |-> 0]

\* the objects a call leaves: what the call did, its name, what it
\* returned, and the contents it found
Called(o, op, done, ret) ==
    Collected([done EXCEPT !.op = op, !.ret = ret, !.pre = ListContents(o),
                           !.run = Run(o, op, done)])

\* Calculator.__init__: history is a new list, empty or holding the
\* records of the rows loaded, and the stacks are new empty lists
NewObjects(n) ==
    Only({Called(constructed, "init", constructed, FALSE) :
            constructed \in {[lists |-> <<[i \in 1..n |-> i]>>, history |-> 1,
                              undo_stack |-> <<>>, redo_stack |-> <<>>,
                              created |-> n, op |-> "init", ret |-> FALSE,
                              pre |-> <<>>, run |-> <<>>]}})

\* a perform_operation that creates its calculation
PerformOnLists ==
    /\ objects.created < MaxRecords
    /\ Len(objects.undo_stack) < MaxDepth
    /\ objects' = Called(objects, "perform_operation",
                         perform_operation_lists(objects), FALSE)
    /\ UNCHANGED <<history, undo_stack, redo_stack, operation_strategy,
                   observers, auto_save, store, last, script, registry, probe>>

UndoOnLists ==
    /\ \E done \in {undo_lists(objects)} :
          objects' = Called(objects, "undo", done.objects, done.ret)
    /\ UNCHANGED <<history, undo_stack, redo_stack, operation_strategy,
                   observers, auto_save, store, last, script, registry, probe>>

RedoOnLists ==
    /\ \E done \in {redo_lists(objects)} :
          objects' = Called(objects, "redo", done.objects, done.ret)
    /\ UNCHANGED <<history, undo_stack, redo_stack, operation_strategy,
                   observers, auto_save, store, last, script, registry, probe>>

ClearOnLists ==
    /\ objects' = Called(objects, "clear_history", clear_history_lists(objects),
                         FALSE)
    /\ UNCHANGED <<history, undo_stack, redo_stack, operation_strategy,
                   observers, auto_save, store, last, script, registry, probe>>

LoadOnLists(n) ==
    /\ objects.created + n <= MaxRecords
    /\ objects' = Called(objects, "load_history", load_history_lists(objects, n),
                         FALSE)
    /\ UNCHANGED <<history, undo_stack, redo_stack, operation_strategy,
                   observers, auto_save, store, last, script, registry, probe>>

\* a calculator constructed on no store or on a store of one row
InitObjects ==
    /\ InitWith({NoStore}, {<<>>}, {TRUE})
    /\ probe = NoProbe
    /\ objects \in {NewObjects(n) : n \in 0..1}

NextObjects ==
    \/ PerformOnLists
    \/ UndoOnLists
    \/ RedoOnLists
    \/ ClearOnLists
    \/ \E n \in 1..MaxHistorySize : LoadOnLists(n)

SpecObjects == InitObjects /\ [][NextObjects]_vars


(***************************************************************************)
(* Calls on the operation catalog, the factory and the input validator,   *)
(* made directly as the tests of operations.py and input_validators.py    *)
(* make them.                                                             *)
(***************************************************************************)
\* the largest magnitude of the integer operands handed to execute
MaxOperand == 7

calculatorVars == <<history, undo_stack, redo_stack, operation_strategy,
                    observers, auto_save, store, last, script, objects>>

\* str.upper() on the letters of a name
UpperChar(c) ==
    IF \E i \in 1..26 : LowerCase[i] = c
      THEN UpperCase[CHOOSE i \in 1..26 : LowerCase[i] = c]
      ELSE c
Upper(text) == [i \in 1..Len(text) |-> UpperChar(text[i])]

\* the operands handed to execute: the integers up to MaxOperand either
\* side of zero, and some halves
Operands ==
    {Q(n, 1) : n \in (-MaxOperand)..MaxOperand} \cup {Q(-1, 2), Q(1, 2), Q(5, 2)}

\* the names of the ten operations as the specification writes them
SpecNames ==
    {<<"A", "d", "d">>,
     <<"S", "u", "b", "t", "r", "a", "c", "t">>,
     <<"M", "u", "l", "t", "i", "p", "l", "y">>,
     <<"D", "i", "v", "i", "d", "e">>,
     <<"P", "o", "w", "e", "r">>,
     <<"R", "o", "o", "t">>,
     <<"M", "o", "d", "u", "l", "u", "s">>,
     <<"I", "n", "t", "e", "g", "e", "r", "D", "i", "v", "i", "d", "e">>,
     <<"P", "e", "r", "c", "e", "n", "t", "a", "g", "e">>,
     <<"A", "b", "s", "o", "l", "u", "t", "e", "D", "i", "f", "f", "e", "r", "e", "n", "c", "e">>}

\* names that are keys of the registry as written, names that are not keys
\* in any letter case, and the names a caller registers classes under
KeyNames == {<<"a", "b", "s", "o", "l", "u", "t", "e">>, <<"i", "n", "t", "e", "g", "e", "r", "d", "i", "v", "i", "d", "e">>}
UnknownNames == {<<"i", "n", "v", "a", "l", "i", "d", "_", "o", "p", "e", "r", "a", "t", "i", "o", "n">>, <<"i", "n", "t", "e", "g", "e", "r", "d", "i", "v", "i", "s", "i", "o", "n">>, <<>>}
RegisterNames == {<<"n", "e", "w", "_", "o", "p">>, <<"N", "e", "w", "_", "O", "p">>, <<"A", "d", "d">>}

\* the commands start_calculator_repl hands to create_operation, as its
\* help lists them
ReplCommands ==
    {<<"a", "d", "d">>,
     <<"s", "u", "b", "t", "r", "a", "c", "t">>,
     <<"m", "u", "l", "t", "i", "p", "l", "y">>,
     <<"d", "i", "v", "i", "d", "e">>,
     <<"p", "o", "w", "e", "r">>,
     <<"r", "o", "o", "t">>,
     <<"m", "o", "d", "u", "l", "u", "s">>,
     <<"i", "n", "t", "e", "g", "e", "r", "d", "i", "v", "i", "s", "i", "o", "n">>,
     <<"p", "e", "r", "c", "e", "n", "t", "a", "g", "e">>,
     <<"a", "b", "s", "o", "l", "u", "t", "e", "d", "i", "f", "f", "e", "r", "e", "n", "c", "e">>}

\* the names handed to create_operation, in three letter cases
CreateNames ==
    LET written == SpecNames \cup KeyNames \cup UnknownNames \cup RegisterNames
                     \cup ReplCommands
    IN  written \cup {Lower(n) : n \in written} \cup {Upper(n) : n \in written}

\* the classes handed to register_operation: subclasses of Operation, and
\* a class that is not one
RegisterClasses == {"divide", "NewOperation", "int"}

\* a call of execute or of validate_number that has been made and has not
\* run yet
Pending(op, cls, a, b, text) ==
    [NoProbe EXCEPT !.op = op, !.cls = cls, !.a = a, !.b = b, !.text = text,
                    !.raised = "pending"]

\* a call of to_dict on a record, or of from_dict on a dictionary, that has
\* been made and has not run yet
PendingRecord(op, kind, calc, data) ==
    [NoProbe EXCEPT !.op = op, !.cls = kind, !.calc = calc, !.data = data,
                    !.raised = "pending"]

\* str(v) of the decimal h/2
HalfText(h) ==
    (IF h < 0 THEN <<"-">> ELSE <<>>) \o NatText(Abs(h) \div 2)
       \o (IF Abs(h) % 2 = 1 THEN <<".", "5">> ELSE <<>>)

\* the halves handed to validate_number: up to the ceiling and beyond it,
\* either side of zero
Halves == (-(2 * MaxInputValue + 3))..(2 * MaxInputValue + 3)

\* values that are not numbers: text, the empty string, blanks only, text
\* between blanks, a number with two points, None
InvalidValues ==
    {<<"a", "b", "c">>, <<>>, <<" ", " ">>, <<" ", "a", "b", "c", " ">>,
     <<"2", ".", "5", ".">>, None}

\* the calls of validate_number: a number as str() writes it, a number
\* between blanks, a value that is not a number; with the number written
ValidateCalls ==
    {Pending("validate_number", "number", Q(h, 2), NoValue, HalfText(h)) :
       h \in Halves}
    \cup {Pending("validate_number", "padded", Q(h, 2), NoValue,
                  <<" ", " ">> \o HalfText(h) \o <<" ">>) : h \in Halves}
    \cup {Pending("validate_number", "invalid", NoValue, NoValue, v) :
            v \in InvalidValues}

Probe(op, cls, a, b, text, outcome, made) ==
    [op |-> op, cls |-> cls, a |-> a, b |-> b, text |-> text,
     calc |-> NoStrategy, data |-> <<>>,
     raised |-> outcome.raised, msg |-> outcome.msg,
     val |-> IF made THEN NoValue ELSE outcome.val,
     made |-> IF made /\ outcome.raised = "none" THEN outcome.val ELSE NoStrategy,
     pre |-> registry]

\* the operands of the records that are constructed and converted
RecordOperands == {Q(-2, 1), Q(0, 1), Q(1, 2), Q(2, 1), Q(3, 1)}

\* the operation names handed to Calculation(): the keys of its table, the
\* name test_calculate_absolute_difference uses, a name that is no key
ConstructNames == CalculationNames \cup {"absolutedifference", "invalid_operation"}

\* the records that exist: constructed at an earlier time or now
Constructed ==
    {[c.val EXCEPT !.timestamp = t] :
       c \in {x \in {NewCalculation(op, a, b) :
                       op \in CalculationNames, a \in RecordOperands,
                       b \in RecordOperands} : x.raised = "none"},
       t \in {Before, Now}}

\* dictionaries of five text fields as a caller writes them: the one of
\* test_from_dict, one whose stored result is not the sum, a division by
\* zero, a power that is a complex number, a name that is no key
Dict(operation, operand1, operand2, result, timestamp) ==
    [operation |-> operation, operand1 |-> operand1, operand2 |-> operand2,
     result |-> result, timestamp |-> timestamp]
WrittenDicts ==
    {Dict("add", <<"2">>, <<"3">>, <<"5">>, isoformat(Before)),
     Dict("add", <<"2">>, <<"3">>, <<"7">>, isoformat(Before)),
     Dict("divide", <<"2">>, <<"0">>, <<"0">>, isoformat(Before)),
     Dict("power", <<"-", "2">>, <<"0", ".", "5">>, <<"1">>, isoformat(Before)),
     Dict("Addition", <<"2">>, <<"3">>, <<"5">>, isoformat(Before))}

\* a dictionary without one of its keys, and with text that spells neither
\* a number nor a time under one of its keys
Without(data, key) == [k \in DOMAIN data \ {key} |-> data[k]]
Garbled(data, key) == [data EXCEPT ![key] = <<"i", "n", "v", "a", "l", "i", "d">>]

\* the calls of to_dict and of from_dict
RecordCalls ==
    {PendingRecord("to_dict", "record", r, <<>>) : r \in Constructed}
    \cup {PendingRecord("from_dict", "intact", NoStrategy, d) : d \in WrittenDicts}
    \cup {PendingRecord("from_dict", "missing", NoStrategy, Without(d, k)) :
            d \in WrittenDicts,
            k \in {"operation", "operand1", "operand2", "result", "timestamp"}}
    \cup {PendingRecord("from_dict", "unparsable", NoStrategy, Garbled(d, k)) :
            d \in WrittenDicts,
            k \in {"operand1", "operand2", "result", "timestamp"}}

\* an argument of CalculatorConfig(): <<>> when it is left out, <<n>> when
\* n is passed
ConfigArguments == {<<>>, <<-1>>, <<0>>, <<2>>}

\* what int(os.getenv(name, default)) gives for the three settings: the
\* defaults when the environment sets none of them, 0 when it sets them
\* to 0
DefaultEnvironment ==
    [max_history_size |-> 1000, precision |-> 10, max_input_value |-> 1000000]
Environments ==
    {DefaultEnvironment,
     [max_history_size |-> 0, precision |-> 0, max_input_value |-> 0]}

\* argument or default: the default also replaces an argument of 0
OrDefault(argument, default) ==
    IF argument = <<>> THEN default
    ELSE IF argument[1] = 0 THEN default
    ELSE argument[1]

\* CalculatorConfig.__init__: the settings of the configuration it builds
CalculatorConfig(max_history_size, precision, max_input_value, environment) ==
    [max_history_size |-> OrDefault(max_history_size, environment.max_history_size),
     precision |-> OrDefault(precision, environment.precision),
     max_input_value |-> OrDefault(max_input_value, environment.max_input_value)]

\* the configurations a caller can build
Configurations ==
    {CalculatorConfig(h, p, m, e) :
       h \in ConfigArguments, p \in ConfigArguments, m \in ConfigArguments,
       e \in Environments}

\* validate refusing a precision of 0
validate_precision_positive(config) ==
    IF config.max_history_size <= 0
      THEN Raise("ConfigurationError",
                 <<"Maximum history size must be a positive integer.">>)
    ELSE IF config.precision <= 0
      THEN Raise("ConfigurationError",
                 <<"Precision must be a non-negative integer.">>)
    ELSE IF config.max_input_value <= 0
      THEN Raise("ConfigurationError",
                 <<"Maximum input value must be a positive number.">>)
    ELSE Ok(NoValue)

\* CalculatorConfig.validate
validate(config) ==
    IF config.max_history_size <= 0
      THEN Raise("ConfigurationError",
                 <<"Maximum history size must be a positive integer.">>)
    ELSE IF config.precision < 0
      THEN Raise("ConfigurationError",
                 <<"Precision must be a non-negative integer.">>)
    ELSE IF config.max_input_value <= 0
      THEN Raise("ConfigurationError",
                 <<"Maximum input value must be a positive number.">>)
    ELSE Ok(NoValue)

\* Calculator.__init__ as far as the creation of the history, the
\* observers and the stacks: the configuration is validated first
Calculator(config) ==
    Only({IF checked.raised # "none" THEN checked
          ELSE Ok([history |-> <<>>, operation_strategy |-> NoStrategy,
                   observers |-> <<>>, undo_stack |-> <<>>, redo_stack |-> <<>>]) :
            checked \in {validate(config)}})

\* the calls of validate and of Calculator() on a configuration
ConfigCalls ==
    {PendingRecord(op, "config", NoStrategy, config) :
       op \in {"validate", "Calculator"}, config \in Configurations}

\* config.validate(), for the call that is pending
Validate ==
    /\ probe.op = "validate" /\ probe.raised = "pending"
    /\ \E done \in {validate(probe.data)} :
          probe' = [Probe("validate", probe.cls, NoValue, NoValue, <<>>, done, FALSE)
                      EXCEPT !.data = probe.data]
    /\ UNCHANGED <<registry, calculatorVars>>

\* Calculator(config), for the call that is pending
ConstructCalculator ==
    /\ probe.op = "Calculator" /\ probe.raised = "pending"
    /\ \E done \in {Calculator(probe.data)} :
          probe' = [Probe("Calculator", probe.cls, NoValue, NoValue, <<>>, done, TRUE)
                      EXCEPT !.data = probe.data]
    /\ UNCHANGED <<registry, calculatorVars>>

\* the calls of CalculatorConfig(): each argument left out or passed, in
\* an environment
ConfigArgumentCalls ==
    {PendingRecord("CalculatorConfig", "arguments", NoStrategy,
                   [max_history_size |-> h, precision |-> p,
                    max_input_value |-> m, environment |-> e]) :
       h \in ConfigArguments, p \in ConfigArguments, m \in ConfigArguments,
       e \in Environments}

\* CalculatorConfig(max_history_size, precision, max_input_value), for the
\* call that is pending
ConstructConfig ==
    /\ probe.op = "CalculatorConfig" /\ probe.raised = "pending"
    /\ \E config \in {CalculatorConfig(probe.data.max_history_size,
                                        probe.data.precision,
                                        probe.data.max_input_value,
                                        probe.data.environment)} :
          probe' = [probe EXCEPT !.raised = "none", !.made = config]
    /\ UNCHANGED <<registry, calculatorVars>>

\* the calls of perform_operation on a strategy named after a key, past
\* the validation of the inputs
StrategyCalls ==
    {Pending("perform_operation", cls, a, b, <<>>) :
       cls \in DOMAIN KeyClassBase, a \in RecordOperands, b \in RecordOperands}

\* perform_operation on validated operands, for the call that is pending
PerformOnStrategy ==
    /\ probe.op = "perform_operation" /\ probe.raised = "pending"
    /\ \E done \in {perform_result(KeyInstance(probe.cls), probe.a, probe.b)} :
          probe' = [Probe("perform_operation", probe.cls, probe.a, probe.b, <<>>,
                          done.outcome, FALSE)
                      EXCEPT !.calc = done.calculation]
    /\ UNCHANGED <<registry, calculatorVars>>

\* operation_class().execute(a, b), for the call that is pending
Execute ==
    /\ probe.op = "execute" /\ probe.raised = "pending"
    /\ \E done \in {execute(Instance(probe.cls), probe.a, probe.b)} :
          probe' = Probe("execute", probe.cls, probe.a, probe.b, <<>>, done, FALSE)
    /\ UNCHANGED <<registry, calculatorVars>>

\* Calculation(operation, operand1, operand2), for the call that is pending
Construct ==
    /\ probe.op = "Calculation" /\ probe.raised = "pending"
    /\ \E done \in {NewCalculation(probe.cls, probe.a, probe.b)} :
          probe' = Probe("Calculation", probe.cls, probe.a, probe.b, <<>>, done, TRUE)
    /\ UNCHANGED <<registry, calculatorVars>>

\* calc.to_dict(), for the call that is pending
ToDict ==
    /\ probe.op = "to_dict" /\ probe.raised = "pending"
    /\ probe' = [probe EXCEPT !.raised = "none", !.data = to_dict(probe.calc)]
    /\ UNCHANGED <<registry, calculatorVars>>

\* Calculation.from_dict(data), for the call that is pending or on the
\* dictionary to_dict has returned
FromDict ==
    /\ \/ probe.op = "from_dict" /\ probe.raised = "pending"
       \/ probe.op = "to_dict" /\ probe.raised = "none"
    /\ \E done \in {from_dict(probe.data)} :
          probe' = [Probe("from_dict",
                          IF probe.op = "to_dict" THEN "round trip" ELSE probe.cls,
                          NoValue, NoValue, <<>>, done, TRUE)
                      EXCEPT !.calc = probe.calc, !.data = probe.data]
    /\ UNCHANGED <<registry, calculatorVars>>

\* InputValidator.validate_number(value, config), for the call that is
\* pending
ValidateNumber ==
    /\ probe.op = "validate_number" /\ probe.raised = "pending"
    /\ \E done \in {validate_number(probe.text, MaxInputValue)} :
          probe' = Probe("validate_number", probe.cls, probe.a, probe.b,
                         probe.text, done, FALSE)
    /\ UNCHANGED <<registry, calculatorVars>>

\* the calls of the factory: they are made in the runs that start with no
\* call pending
FactoryCalls == {"none", "create_operation", "register_operation"}

\* OperationFactory.create_operation(operation_type)
CreateOperation(operation_type) ==
    \E done \in {create_operation(registry, operation_type)} :
        /\ probe.op \in FactoryCalls
        /\ probe' = Probe("create_operation", "None", NoValue, NoValue,
                          operation_type, done, TRUE)
        /\ UNCHANGED <<registry, calculatorVars>>

\* OperationFactory.register_operation(name, operation_class)
RegisterOperation(name, operation_class) ==
    \E done \in {register_operation(registry, name, operation_class)} :
        /\ probe.op \in FactoryCalls
        /\ registry' = done.operations
        /\ probe' = Probe("register_operation", operation_class, NoValue, NoValue,
                          name, done.outcome, FALSE)
        /\ UNCHANGED calculatorVars

\* the program as it starts, with one call made of execute on an instance
\* of a built-in class, of validate_number, of Calculation(), of to_dict,
\* of from_dict, of validate, of Calculator(), of CalculatorConfig() or of
\* perform_operation, or none
InitCatalog ==
    /\ InitWith({NoStore}, {<<>>}, {TRUE})
    /\ objects = NoObjects
    /\ probe \in {NoProbe} \cup ValidateCalls \cup RecordCalls \cup ConfigCalls
                 \cup ConfigArgumentCalls \cup StrategyCalls
                 \cup {Pending("Calculation", name, a, b, <<>>) :
                         name \in ConstructNames, a \in RecordOperands,
                         b \in RecordOperands}
                 \cup {Pending("execute", cls, a, b, <<>>) :
                         cls \in BuiltInClasses, a \in Operands, b \in Operands}

NextCatalog ==
    \/ Execute
    \/ ValidateNumber
    \/ Construct
    \/ ToDict
    \/ FromDict
    \/ Validate
    \/ ConstructCalculator
    \/ ConstructConfig
    \/ PerformOnStrategy
    \/ \E n \in CreateNames : CreateOperation(n)
    \/ \E n \in RegisterNames : \E cls \in RegisterClasses : RegisterOperation(n, cls)

SpecCatalog == InitCatalog /\ [][NextCatalog]_vars


(***************************************************************************)
(* Properties of perform_operation, undo, redo and clear_history.         *)
(***************************************************************************)

\* whether the text part occurs in the text msg
Contains(msg, part) ==
    \E i \in 0..(Len(msg) - Len(part)) : SubSeq(msg, i + 1, i + Len(part)) = part

\* whether a record of the history is of a call on operands a and b that
\* gave result
Describes(record, a, b, result) ==
    record.operand1 = a /\ record.operand2 = b /\ record.result = result

\* C1: with a strategy of a built-in class selected, operands that pass the
\* input validation and the validation of the operation, and a history
\* with room left, perform_operation raises nothing, returns
\* execute(a, b) and leaves the history one record longer, the new record
\* being the record of that call.
C1_PerformSucceeds ==
    [][\A c \in PerformCalls :
         LET va == ValidatedInput[c[1][1]]
             vb == ValidatedInput[c[1][2]]
             result == execute(operation_strategy, va.val, vb.val)
         IN  (/\ last'.op = "perform_operation"
              /\ operation_strategy \in BuiltInStrategies
              /\ c[2]
              /\ Len(history) < MaxHistorySize
              /\ va.raised = "none"
              /\ vb.raised = "none"
              /\ result.raised = "none"
              /\ PerformOperation(c[1][1], c[1][2], c[2]))
             => /\ last'.raised = "none"
                /\ last'.val = result.val
                /\ Len(history') = Len(history) + 1
                /\ Describes(history'[Len(history')], va.val, vb.val, result.val)
      ]_vars

\* C2: an undo that comes straight after a perform_operation that returned
\* returns True, and the history it leaves is the history that
\* perform_operation found, whether or not the call evicted a record.
C2_UndoRestores ==
    [][(last.op = "perform_operation" /\ last.raised = "none" /\ last'.op = "undo")
         => (/\ last'.ret
             /\ last'.raised = "none"
             /\ history' = last.pre.history)]_vars

\* an undo straight after a perform_operation that returned and that had
\* evicted the oldest record of a full history
C2_Witness ==
    /\ last.op = "undo"
    /\ last.follows = "perform_operation"
    /\ last.ret
    /\ redo_stack # <<>>
    /\ Len(history) = MaxHistorySize
    /\ Len(redo_stack[Len(redo_stack)]) = MaxHistorySize
    /\ SubSeq(redo_stack[Len(redo_stack)], 1, MaxHistorySize - 1) = Tail(history)

\* C3: a redo that comes straight after an undo that returned True returns
\* True and leaves the history and both stacks as that undo found them;
\* and after the calls of test_redo_operation (Add on two operands in
\* range, undo, redo, on a calculator built in an empty directory) the
\* history is the one record of that addition, the redo stack is empty and
\* the undo stack holds one snapshot.
C3_RedoRestores ==
    [][/\ (last.op = "undo" /\ last.ret /\ last'.op = "redo")
            => (/\ last'.ret
                /\ history' = last.pre.history
                /\ undo_stack' = last.pre.undo_stack
                /\ redo_stack' = last.pre.redo_stack)
       /\ (script' = 4)
            => (/\ Len(history') = 1
                /\ Describes(history'[1], Q(2, 1), Q(2, 1), Q(4, 1))
                /\ redo_stack' = <<>>
                /\ Len(undo_stack') = 1)
      ]_vars

\* C4: a perform_operation that returned leaves the redo stack empty, and
\* a redo that comes straight after it returns False and leaves the history
\* and both stacks as they were.
C4_RedoInvalidated ==
    /\ (last.op = "perform_operation" /\ last.raised = "none")
          => redo_stack = <<>>
    /\ (last.op = "redo" /\ last.follows = "perform_operation")
          => (~last.ret /\ Containers = last.pre)

\* a perform_operation that returned after undo calls had left snapshots on
\* the redo stack
C4_Witness ==
    /\ last.op = "perform_operation"
    /\ last.raised = "none"
    /\ last.pre.redo_stack # <<>>
    /\ redo_stack = <<>>

\* C5: undo on an empty undo stack, and redo on an empty redo stack, return
\* False, raise nothing and leave the history and both stacks as they were.
C5_EmptyStackNoOp ==
    /\ (last.op = "undo" /\ last.pre.undo_stack = <<>>)
          => (~last.ret /\ last.raised = "none" /\ Containers = last.pre)
    /\ (last.op = "redo" /\ last.pre.redo_stack = <<>>)
          => (~last.ret /\ last.raised = "none" /\ Containers = last.pre)

\* an undo on an empty undo stack while the history and the redo stack hold
\* something
C5_Witness ==
    /\ last.op = "undo"
    /\ last.pre.undo_stack = <<>>
    /\ history # <<>>
    /\ redo_stack # <<>>

\* C6: a perform_operation that raises, whatever raised inside it (no
\* strategy, a validation, the execution, the notification of an
\* observer), leaves the history and both stacks as it found them.
C6_FailureAtomic ==
    (last.op = "perform_operation" /\ last.raised # "none")
       => Containers = last.pre

\* C7: the history never holds more than max_history_size records.
C7_HistoryBound == Len(history) <= MaxHistorySize

\* C8: a perform_operation that returned on a history of max_history_size
\* records leaves max_history_size records, the old ones but the oldest, in
\* their order, then the new one; on a shorter history it evicts nothing;
\* and with the history full, an Add on two operands in range leaves the
\* old records but the oldest, then the record of that addition.
C8_FifoEviction ==
    [][\A c \in PerformCalls :
         LET kept == IF Len(history) = MaxHistorySize THEN Tail(history)
                     ELSE history
             va == ValidatedInput[c[1][1]]
             vb == ValidatedInput[c[1][2]]
         IN  (/\ last'.op = "perform_operation"
              /\ Len(history) <= MaxHistorySize
              /\ PerformOperation(c[1][1], c[1][2], c[2]))
             => /\ (last'.raised = "none")
                     => (/\ Len(history') = Len(kept) + 1
                         /\ SubSeq(history', 1, Len(kept)) = kept
                         /\ Describes(history'[Len(history')], va.val, vb.val,
                                      last'.val))
                /\ (/\ operation_strategy = AddStrategy
                    /\ c = <<TestPair, TRUE>>)
                     => (/\ Len(history') = Len(kept) + 1
                         /\ SubSeq(history', 1, Len(kept)) = kept
                         /\ Describes(history'[Len(history')], Q(2, 1), Q(2, 1),
                                      Q(4, 1)))
      ]_vars

\* C9: clear_history leaves the history and both stacks empty, and an undo
\* or a redo that comes straight after it returns False.
C9_ClearEmptiesAll ==
    /\ (last.op = "clear_history")
          => (history = <<>> /\ undo_stack = <<>> /\ redo_stack = <<>>)
    /\ (last.op \in {"undo", "redo"} /\ last.follows = "clear_history")
          => (~last.ret /\ history = <<>> /\ undo_stack = <<>> /\ redo_stack = <<>>)

\* a clear_history that found records in the history and snapshots on both
\* stacks
C9_Witness ==
    /\ last.op = "clear_history"
    /\ last.pre.history # <<>>
    /\ last.pre.undo_stack # <<>>
    /\ last.pre.redo_stack # <<>>

\* C10: perform_operation raises nothing but ValidationError and
\* OperationError; a ValidationError raised inside it, by the input
\* validation or by the validation of the operation, reaches the caller
\* with its message as it was raised; anything else raised inside it
\* reaches the caller as an OperationError whose message contains the
\* message raised.
C10_ErrorPropagation ==
    (last.op = "perform_operation")
       => /\ last.raised \in {"none", "ValidationError", "OperationError"}
          /\ (last.cause.raised = "none") => (last.raised = "none")
          /\ (last.cause.raised = "ValidationError")
                => (last.raised = "ValidationError" /\ last.msg = last.cause.msg)
          /\ (last.cause.raised \notin {"none", "ValidationError"})
                => (/\ last.raised = "OperationError"
                    /\ Contains(last.msg, last.cause.msg))

\* a perform_operation that raised the ValidationError of Division's
\* check of its operands
C10_Witness ==
    /\ last.op = "perform_operation"
    /\ last.cause.raised = "ValidationError"
    /\ last.cause.msg = <<"Division by zero is not allowed.">>
    /\ last.raised = "ValidationError"


\* C11: perform_operation called while no operation is selected raises
\* OperationError 'No operation set...' whatever the operands are, operands
\* that fail validation included, and leaves the history and both stacks
\* as it found them.
C11_NoOperationSet ==
    (last.op = "perform_operation" /\ operation_strategy = NoStrategy)
      => /\ last.raised = "OperationError"
         /\ Contains(last.msg, <<"No operation set. Please set an operation before performing calculations.">>)
         /\ last.val = NoValue
         /\ Containers = last.pre

\* a perform_operation with no strategy on a history loaded from the store
C11_Witness ==
    /\ last.op = "perform_operation"
    /\ operation_strategy = NoStrategy
    /\ last.raised = "OperationError"
    /\ history # <<>>


(***************************************************************************)
(* Properties of the operation catalog, the factory and the validator.    *)
(***************************************************************************)

\* C12: execute validates before it computes and returns no value when the
\* validation fails; it raises ValidationError exactly when Divide, Modulus,
\* IntegerDivide or Percentage get b = 0, IntegerDivide gets an operand with
\* a fractional part, Power gets b < 0, or Root gets a < 0 or b <= 0; Add,
\* Subtract, Multiply and AbsoluteDifference never raise it.
C12_OperandValidation ==
    (probe.op = "execute" /\ probe.raised # "pending")
      => LET forbidden ==
               \/ /\ probe.cls \in {"Division", "Modulus", "IntegerDivision",
                                     "Percentage"}
                  /\ Num(probe.b) = 0
               \/ /\ probe.cls = "IntegerDivision"
                  /\ (Den(probe.a) # 1 \/ Den(probe.b) # 1)
               \/ probe.cls = "Power" /\ Num(probe.b) < 0
               \/ probe.cls = "Root" /\ (Num(probe.a) < 0 \/ Num(probe.b) <= 0)
         IN  /\ (probe.raised = "ValidationError") <=> forbidden
             /\ forbidden => probe.val = NoValue
             /\ probe.cls \in {"Addition", "Subtraction", "Multiplication",
                               "AbsoluteDifference"}
                  => probe.raised = "none"

\* a root of degree zero, refused
C12_Witness ==
    /\ probe.op = "execute" /\ probe.cls = "Root"
    /\ probe.a = Q(2, 1) /\ probe.b = Q(0, 1)
    /\ probe.raised = "ValidationError"
    /\ probe.val = NoValue


\* C13: Percentage with a zero second operand raises a ValidationError whose
\* message contains 'zero base value'.
C13_ZeroBaseMessage ==
    (/\ probe.op = "execute" /\ probe.raised # "pending"
     /\ probe.cls = "Percentage" /\ Num(probe.b) = 0)
      => /\ probe.raised = "ValidationError"
         /\ Contains(probe.msg, <<"zero", " ", "base", " ", "value">>)

\* C14 as the specification states it: IntegerDivide returns floor(a / b)
\* for all operands without a fractional part and b # 0, operands of
\* opposite sign included.
C14_FloorQuotient ==
    (/\ probe.op = "execute" /\ probe.raised # "pending"
     /\ probe.cls = "IntegerDivision"
     /\ Den(probe.a) = 1 /\ Den(probe.b) = 1 /\ Num(probe.b) # 0)
      => /\ probe.raised = "none"
         /\ probe.val = Q(IF Num(probe.b) > 0
                             THEN Num(probe.a) \div Num(probe.b)
                             ELSE (-Num(probe.a)) \div (-Num(probe.b)), 1)

\* C14, amended: for operands without a fractional part and b # 0,
\* IntegerDivide returns the quotient truncated toward zero, the integer q
\* whose remainder a - b * q is smaller than b in magnitude and is zero or
\* of the sign of a; q is floor(a / b) when b divides a or a and b have the
\* same sign, and floor(a / b) + 1 otherwise.
C14_TruncatedQuotient ==
    (/\ probe.op = "execute" /\ probe.raised # "pending"
     /\ probe.cls = "IntegerDivision"
     /\ Den(probe.a) = 1 /\ Den(probe.b) = 1 /\ Num(probe.b) # 0)
      => /\ probe.raised = "none"
         /\ IsExact(probe.val) /\ Den(probe.val) = 1
         /\ LET na == Num(probe.a)
                nb == Num(probe.b)
                q == Num(probe.val)
                r == na - nb * q
                floor == IF nb > 0 THEN na \div nb ELSE (-na) \div (-nb)
            IN  /\ Abs(r) < Abs(nb)
                /\ r = 0 \/ ((r < 0) <=> (na < 0))
                /\ q = IF r = 0 \/ ((na < 0) <=> (nb < 0)) THEN floor ELSE floor + 1

\* -7 // 2 is -3, where floor(-7 / 2) is -4
C14_Witness ==
    /\ probe.op = "execute" /\ probe.cls = "IntegerDivision"
    /\ probe.a = Q(-7, 1) /\ probe.b = Q(2, 1)
    /\ probe.raised = "none"
    /\ probe.val = Q(-3, 1)


\* C15: on the registry as the program starts, create_operation resolves
\* each of the ten operation names of the specification, written in any
\* letter case, to an instance of the matching class.
C15_BuiltInNamesResolve ==
    (/\ probe.op = "create_operation"
     /\ probe.pre = FactoryOperations
     /\ \E n \in SpecNames : Lower(probe.text) = Lower(n))
      => LET matching ==
               ("add" :> "Addition") @@ ("subtract" :> "Subtraction")
               @@ ("multiply" :> "Multiplication") @@ ("divide" :> "Division")
               @@ ("power" :> "Power") @@ ("root" :> "Root")
               @@ ("modulus" :> "Modulus")
               @@ ("integerdivide" :> "IntegerDivision")
               @@ ("percentage" :> "Percentage")
               @@ ("absolutedifference" :> "AbsoluteDifference")
         IN  /\ probe.raised = "none"
             /\ probe.made.cls = matching[Join(Lower(probe.text))]

\* C16: create_operation with a name that is not registered raises a
\* ValueError whose message contains 'Unknown operation type: <name>',
\* returns no instance and leaves the registry as it was.
C16_UnknownNameRejected ==
    (/\ probe.op = "create_operation"
     /\ Join(Lower(probe.text)) \notin DOMAIN probe.pre)
      => /\ probe.raised = "ValueError"
         /\ Contains(probe.msg,
                     <<"Unknown", " ", "operation", " ", "type", ":", " ">>
                        \o probe.text)
         /\ probe.made = NoStrategy
         /\ registry = probe.pre

\* C17: register_operation(name, cls) with cls a subclass of Operation sets
\* the entry of the lower-cased name to cls and changes no other entry; a
\* create_operation of a registered name, in any letter case, returns an
\* instance of the class the registry holds for it, the one registered
\* last; no step removes an entry.
C17_RegisterOverrides ==
    [][/\ \A k \in DOMAIN registry : k \in DOMAIN registry'
       /\ (probe'.op = "register_operation" /\ IsOperationClass(probe'.cls))
            => /\ probe'.raised = "none"
               /\ registry' = [k \in DOMAIN registry \cup {Join(Lower(probe'.text))} |->
                                 IF k = Join(Lower(probe'.text)) THEN probe'.cls
                                 ELSE registry[k]]
       /\ (/\ probe'.op = "create_operation"
           /\ Join(Lower(probe'.text)) \in DOMAIN registry)
            => /\ probe'.raised = "none"
               /\ probe'.made.cls = registry[Join(Lower(probe'.text))]
               /\ registry' = registry]_vars

\* NEW_OP resolves to the class registered last under New_Op or new_op,
\* and add to a class registered over the built-in one
C17_Witness ==
    /\ probe.op = "create_operation"
    /\ probe.text = <<"N", "E", "W", "_", "O", "P">>
    /\ probe.made.cls = "NewOperation"
    /\ registry["add"] = "divide"

\* C18: register_operation with a class that is not a subclass of Operation
\* raises a TypeError whose message contains 'operation_class must be a
\* subclass of Operation', and leaves the registry as it was.
C18_NonSubclassRejected ==
    (probe.op = "register_operation" /\ ~IsOperationClass(probe.cls))
      => /\ probe.raised = "TypeError"
         /\ Contains(probe.msg,
                     <<"operation_class", " ", "must", " ", "be", " ", "a", " ",
                       "subclass", " ", "of", " ", "Operation">>)
         /\ registry = probe.pre


\* C19: validate_number accepts every value whose magnitude is at most
\* max_input_value, the values max_input_value and -max_input_value
\* included, and returns it; a value of greater magnitude gets a
\* ValidationError that names the ceiling.
C19_CeilingInclusive ==
    (/\ probe.op = "validate_number" /\ probe.raised # "pending"
     /\ probe.cls \in {"number", "padded"})
      => IF Abs(Num(probe.a)) <= MaxInputValue * Den(probe.a)
           THEN probe.raised = "none" /\ probe.val = probe.a
           ELSE /\ probe.raised = "ValidationError"
                /\ probe.val = NoValue
                /\ probe.msg = <<"Input exceeds maximum allowed value: ">>
                                  \o IntText(MaxInputValue)

\* -max_input_value, accepted
C19_Witness ==
    /\ probe.op = "validate_number" /\ probe.cls = "number"
    /\ probe.a = Q(-MaxInputValue, 1)
    /\ probe.raised = "none"
    /\ probe.val = Q(-MaxInputValue, 1)

\* C20 as the specification states it: a value that does not parse as a
\* decimal (text, the empty string, blanks only, None) gets the
\* ValidationError 'Invalid number format: ' followed by the value as it
\* was passed, and nothing is returned; a number between blanks is
\* accepted as that number.
C20_RawValueReported ==
    (probe.op = "validate_number" /\ probe.raised # "pending")
      => /\ probe.cls = "invalid"
              => /\ probe.raised = "ValidationError"
                 /\ probe.val = NoValue
                 /\ probe.msg = <<"Invalid number format: ">>
                                   \o (IF probe.text = None
                                         THEN <<"N", "o", "n", "e">>
                                         ELSE probe.text)
         /\ (probe.cls = "padded"
               /\ Abs(Num(probe.a)) <= MaxInputValue * Den(probe.a))
              => probe.raised = "none" /\ probe.val = probe.a

\* C20, amended: such a value gets the ValidationError 'Invalid number
\* format: ' followed by the value without its leading and trailing blanks
\* (nothing, for blanks only; 'None' for None), and nothing is returned; a
\* number between blanks is accepted as that number.
C20_StrippedValueReported ==
    (probe.op = "validate_number" /\ probe.raised # "pending")
      => /\ probe.cls = "invalid"
              => /\ probe.raised = "ValidationError"
                 /\ probe.val = NoValue
                 /\ \E i, j \in 0..Len(probe.text) :
                       /\ \A k \in 1..Len(probe.text) :
                             (k <= i \/ k > j) => probe.text[k] = " "
                       /\ i < j => probe.text[i + 1] # " " /\ probe.text[j] # " "
                       /\ probe.msg = <<"Invalid number format: ">>
                             \o (IF probe.text = None
                                   THEN <<"N", "o", "n", "e">>
                                   ELSE SubSeq(probe.text, i + 1, j))
         /\ (probe.cls = "padded"
               /\ Abs(Num(probe.a)) <= MaxInputValue * Den(probe.a))
              => probe.raised = "none" /\ probe.val = probe.a

\* ' abc ' is reported as 'abc'
C20_Witness ==
    /\ probe.op = "validate_number"
    /\ probe.text = <<" ", "a", "b", "c", " ">>
    /\ probe.raised = "ValidationError"
    /\ probe.msg = <<"Invalid number format: ", "a", "b", "c">>


\* C21: for every record r that was constructed, from_dict(r.to_dict())
\* returns a record equal to r (operation, operands and result; the
\* timestamp is not compared) whose timestamp is that of r.
C21_RecordRoundTrip ==
    (probe.op = "from_dict" /\ probe.cls = "round trip")
      => /\ probe.raised = "none"
         /\ CalculationEq(probe.made, probe.calc)
         /\ probe.made.timestamp = probe.calc.timestamp

\* the round trip of 2 / 3 made at an earlier time: a rounded quotient,
\* and a timestamp that is not the time of the reconstruction
C21_Witness ==
    /\ probe.op = "from_dict" /\ probe.cls = "round trip"
    /\ probe.calc.operation = "divide"
    /\ probe.calc.operand1 = Q(2, 1) /\ probe.calc.operand2 = Q(3, 1)
    /\ probe.calc.timestamp = Before
    /\ probe.data.operand1 = <<"2">>
    /\ probe.made = probe.calc


\* C22: from_dict never trusts the stored result: with the five fields
\* present and parsable it returns or raises as the construction of the
\* record from the stored operation and operands does, the result of the
\* record is the recomputed one, and a stored result that differs does not
\* make it fail; with a field missing, or an operand, the result or the
\* timestamp unparsable, it raises OperationError.
C22_StoredResultUntrusted ==
    (probe.op = "from_dict" /\ probe.raised # "pending")
      => /\ probe.cls \in {"intact", "round trip"}
              => \E c \in {NewCalculation(probe.data.operation,
                                          DecimalOf(probe.data.operand1).val,
                                          DecimalOf(probe.data.operand2).val)} :
                    /\ probe.raised = c.raised
                    /\ c.raised = "none" => probe.made.result = c.val.result
         /\ probe.cls \in {"missing", "unparsable"}
              => probe.raised = "OperationError"

\* C23: Calculation recognises the ten operation names its tests use, and
\* a Calculation with the operation 'absolutedifference' is constructed
\* with the result |operand1 - operand2|.
C23_AbsoluteDifferenceName ==
    (probe.op = "Calculation" /\ probe.raised # "pending")
      => /\ probe.cls \in {"add", "subtract", "multiply", "divide", "power", "root",
                           "modulus", "integerdivide", "percentage",
                           "absolutedifference"}
              => ~(probe.raised = "OperationError"
                     /\ Contains(probe.msg, <<"Unknown operation: ">>))
         /\ probe.cls = "absolutedifference"
              => /\ probe.raised = "none"
                 /\ probe.made.result = DecAbs(DecSub(probe.a, probe.b))

(***************************************************************************)
(* The observers.                                                          *)
(***************************************************************************)
\* the observers that the updates of the last call were made on, in the
\* order of the updates
Notified == [i \in 1..Len(last.notified) |-> last.notified[i].observer]

C25_ObserverIsolation ==
    (last.op = "perform_operation" /\ last.raised # "none"
       /\ last.notified # <<>>)
       => Notified = observers

\* C26: remove_observer of a registered observer returns and leaves the
\* list without that observer and with the others in their order;
\* remove_observer of an observer that is not registered raises and leaves
\* the list as it was
C26_RemoveObserver ==
    [][last'.op = "remove_observer"
         => IF \E i \in 1..Len(observers) : observers[i] = last'.observer
              THEN /\ last'.raised = "none"
                   /\ observers' = SelectSeq(observers,
                                             LAMBDA o : o # last'.observer)
              ELSE /\ last'.raised # "none"
                   /\ observers' = observers]_vars

\* C27: update of an AutoSaverObserver handed a calculation calls
\* save_history once when config.auto_save is true and not at all when it
\* is false; handed None it raises AttributeError and calls nothing; and a
\* perform_operation makes one call of save_history for each update of an
\* AutoSaverObserver when auto_save is true and none when it is false
C27_AutoSaveOncePerRecord ==
    /\ (last.op = "update" /\ last.observer = "AutoSaverObserver")
          => IF last.calculation = NoCalculation
               THEN last.raised = "AttributeError" /\ last.saves = 0
               ELSE last.saves = IF auto_save THEN 1 ELSE 0
    /\ last.op = "perform_operation"
          => last.saves =
               IF auto_save
                 THEN Cardinality({i \in 1..Len(last.notified) :
                                     last.notified[i].observer = "AutoSaverObserver"})
                 ELSE 0

\* an AutoSaverObserver was handed a calculation with auto_save off, and
\* did not save
C27_Witness ==
    /\ last.op = "update"
    /\ last.observer = "AutoSaverObserver"
    /\ last.calculation = calculation_mock
    /\ ~auto_save
    /\ last.saves = 0
    /\ last.raised = "none"

(***************************************************************************)
(* Loading the history and constructing the calculator.                   *)
(***************************************************************************)
\* C28: load_history on a calculator whose history file does not exist
\* raises nothing and leaves the calculator with an empty history
C28_MissingStoreEmptiesHistory ==
    (last.op = "load_history" /\ ~store.exists)
       => (last.raised = "none" /\ history = <<>>)

\* C29: when load_history raises inside Calculator.__init__, the
\* constructor still returns, and the calculator it returns has an empty
\* history, empty undo and redo stacks and no operation
C29_StartupLoadFailureDowngraded ==
    (last.op = "init" /\ last.cause.raised # "none")
       => /\ last.raised = "none"
          /\ history = <<>>
          /\ undo_stack = <<>>
          /\ redo_stack = <<>>
          /\ operation_strategy = NoStrategy

\* a calculator was constructed on a store whose second row does not load
C29_Witness ==
    /\ last.op = "init"
    /\ last.raised = "none"
    /\ last.cause.raised = "OperationError"
    /\ Len(store.rows) = 2
    /\ history = <<>>

\* C30: validate raises ConfigurationError exactly on a configuration with
\* max_history_size <= 0, precision < 0 or max_input_value <= 0, and
\* raises nothing else; Calculator() on such a configuration raises
\* ConfigurationError and builds no calculator
C30_ConfigValidation ==
    /\ (probe.op = "validate" /\ probe.raised # "pending")
          => /\ probe.raised \in {"none", "ConfigurationError"}
             /\ probe.raised = "ConfigurationError"
                  <=> \/ probe.data.max_history_size <= 0
                      \/ probe.data.precision < 0
                      \/ probe.data.max_input_value <= 0
    /\ (probe.op = "Calculator" /\ probe.raised # "pending"
          /\ (\/ probe.data.max_history_size <= 0
              \/ probe.data.precision < 0
              \/ probe.data.max_input_value <= 0))
          => (probe.raised = "ConfigurationError" /\ probe.made = NoStrategy)

\* Calculator() was refused a configuration whose only fault is its
\* precision
C30_Witness ==
    /\ probe.op = "Calculator"
    /\ probe.raised = "ConfigurationError"
    /\ probe.made = NoStrategy
    /\ probe.data.max_history_size > 0
    /\ probe.data.precision < 0
    /\ probe.data.max_input_value > 0

(***************************************************************************)
(* The mementos.                                                           *)
(***************************************************************************)
\* C31: every memento on the undo stack or the redo stack refers to a list
\* that still holds the records history had when the memento was created,
\* and to a list that is not the live history list
C31_SnapshotIndependence ==
    objects.op # "none"
       => \A stack \in {objects.undo_stack, objects.redo_stack} :
            \A i \in 1..Len(stack) :
               /\ objects.lists[stack[i].history] = stack[i].made
               /\ stack[i].history # objects.history

\* mementos lie on both stacks, one of them made of a full history, while
\* the live history has since lost a record those mementos hold
C31_Witness ==
    /\ objects.op = "undo"
    /\ objects.ret
    /\ objects.undo_stack # <<>>
    /\ objects.redo_stack # <<>>
    /\ Len(objects.redo_stack[1].made) = MaxHistorySize
    /\ objects.lists[objects.history] # objects.redo_stack[1].made

\* C37: a redo made straight after an undo that returned True returns True
\* and leaves history and the records of every memento of both stacks as
\* they were before the undo; an undo made straight after a redo that
\* returned True does the same for the redo; and an undo or a redo that
\* returns True leaves the two stacks with as many mementos together as
\* they held
C37_UndoRedoInverse ==
    [][/\ (objects.op = "undo" /\ objects.ret /\ objects'.op = "redo")
            => (objects'.ret /\ ListContents(objects') = objects.pre)
       /\ (objects.op = "redo" /\ objects.ret /\ objects'.op = "undo")
            => (objects'.ret /\ ListContents(objects') = objects.pre)
       /\ (objects'.op \in {"undo", "redo"} /\ objects'.ret)
            => Len(objects'.undo_stack) + Len(objects'.redo_stack)
                 = Len(objects.undo_stack) + Len(objects.redo_stack)]_vars

\* a redo has undone an undo that was made with mementos on both stacks and
\* a history different from the one the undo restored
C37_Witness ==
    /\ objects.op = "redo"
    /\ objects.ret
    /\ objects.pre.redo_stack # <<>>
    /\ Len(objects.pre.undo_stack) > 1
    /\ ListContents(objects).history # objects.pre.history
    /\ ListContents(objects).undo_stack # objects.pre.undo_stack

\* C38: while the calls made since the construction or the last
\* clear_history are k perform_operation calls followed by undo calls, each
\* of the first k undo calls returns True and leaves the history the
\* calculator had that many perform_operation calls earlier, evicted
\* records included, so that the k-th leaves the history of the start; the
\* undo after them returns False and leaves that history
C38_UndoDepth ==
    (objects.op = "undo" /\ objects.run.intact)
       => IF objects.run.undone < Len(objects.run.trail)
            THEN /\ objects.ret
                 /\ objects.lists[objects.history]
                      = objects.run.trail[Len(objects.run.trail) - objects.run.undone]
            ELSE /\ ~objects.ret
                 /\ objects.lists[objects.history] = objects.run.trail[1]

\* more perform_operation calls than max_history_size have all been undone
C38_Witness ==
    /\ objects.op = "undo"
    /\ objects.ret
    /\ objects.run.intact
    /\ Len(objects.run.trail) - 1 > MaxHistorySize
    /\ objects.run.undone = Len(objects.run.trail) - 1
    /\ objects.lists[objects.history] = objects.run.trail[1]
    /\ objects.undo_stack = <<>>

(***************************************************************************)
(* Saving, loading and the frame of the calls.                            *)
(***************************************************************************)
\* C32: a load_history on the store save_history wrote returns and leaves a
\* history with one record for each row of the store, in the order of the
\* rows, each with the operation, the operands and the result of its row;
\* on a store written from an empty history it leaves an empty history
C32_PersistenceRoundTrip ==
    (last.op = "load_history" /\ store.exists)
       => /\ last.raised = "none"
          /\ Len(history) = Len(store.rows)
          /\ \A i \in 1..Len(history) :
                /\ history[i].operation = store.rows[i].operation
                /\ history[i].operand1 = store.rows[i].operand1
                /\ history[i].operand2 = store.rows[i].operand2
                /\ history[i].result = store.rows[i].result

\* C33: no observer is notified twice of one record, and an observer that
\* remove_observer has removed is no longer registered
C33_ObserversFormSet ==
    /\ last.op = "perform_operation"
          => \A i, j \in 1..Len(last.notified) :
                i # j => last.notified[i].observer # last.notified[j].observer
    /\ (last.op = "remove_observer" /\ last.raised = "none")
          => \A i \in 1..Len(observers) : observers[i] # last.observer

\* C39: undo, redo and clear_history leave the store and the observer list
\* as they were and make no update and no save; a call of the calculator
\* that makes an update or a save is a perform_operation that has pushed
\* the history it found on the undo stack and appended the record it
\* notifies; and a call that changes the observer list is add_observer or
\* remove_observer
C39_OnlyPerformNotifies ==
    [][/\ last'.op \in {"undo", "redo", "clear_history"}
            => /\ store' = store
               /\ observers' = observers
               /\ last'.notified = <<>>
               /\ last'.saves = 0
       /\ (last'.notified # <<>> \/ last'.saves > 0)
            => /\ last'.op = "perform_operation"
               /\ undo_stack' = Append(undo_stack, history)
               /\ history' # <<>>
               /\ last'.notified[1].calculation = history'[Len(history')]
       /\ observers' # observers
            => last'.op \in {"add_observer", "remove_observer"}]_vars

\* a redo restored a history on a calculator with an AutoSaverObserver and
\* a store that holds another history
C39_Witness ==
    /\ last.op = "redo"
    /\ last.ret
    /\ \E i \in 1..Len(observers) : observers[i] = "AutoSaverObserver"
    /\ store.exists
    /\ Len(store.rows) # Len(history)

\* C40: load_history leaves the undo stack and the redo stack as they
\* were and raises nothing but OperationError; when it raises, history is
\* what it was before the call; and an undo made straight after a
\* load_history puts the last memento of the undo stack in the place of
\* the loaded history
C40_LoadChangesOnlyHistory ==
    /\ last.op = "load_history"
          => /\ undo_stack = last.pre.undo_stack
             /\ redo_stack = last.pre.redo_stack
             /\ last.raised \in {"none", "OperationError"}
             /\ last.raised # "none" => history = last.pre.history
    /\ (last.op = "undo" /\ last.follows = "load_history" /\ last.ret)
          => history = last.pre.undo_stack[Len(last.pre.undo_stack)]

\* a load_history raised on a store whose second row is invalid, on a
\* calculator with a history and a memento
C40_Witness ==
    /\ last.op = "load_history"
    /\ last.raised = "OperationError"
    /\ Len(store.rows) = 2
    /\ last.pre.history # <<>>
    /\ undo_stack # <<>>
    /\ history = last.pre.history

(***************************************************************************)
(* The configuration, the commands and the result of a calculation.       *)
(***************************************************************************)
\* C34: the configuration CalculatorConfig() builds holds each argument
\* that was passed, 0 included, and the value of the environment for each
\* argument that was left out; validate raises ConfigurationError on a
\* configuration built with max_history_size = 0 or max_input_value = 0
C34_ExplicitValuesKept ==
    (probe.op = "CalculatorConfig" /\ probe.raised = "none")
       => /\ \A k \in {"max_history_size", "precision", "max_input_value"} :
                probe.made[k] = IF probe.data[k] = <<>>
                                  THEN probe.data.environment[k]
                                  ELSE probe.data[k][1]
          /\ (probe.data.max_history_size = <<0>> \/ probe.data.max_input_value = <<0>>)
                => validate(probe.made).raised = "ConfigurationError"

\* C35: on the registry as the program starts, create_operation resolves
\* each command of the REPL to an instance of the matching class
C35_ReplCommandsResolve ==
    (/\ probe.op = "create_operation"
     /\ probe.pre = FactoryOperations
     /\ probe.text \in ReplCommands)
      => LET matching ==
               ("add" :> "Addition") @@ ("subtract" :> "Subtraction")
               @@ ("multiply" :> "Multiplication") @@ ("divide" :> "Division")
               @@ ("power" :> "Power") @@ ("root" :> "Root")
               @@ ("modulus" :> "Modulus")
               @@ ("integerdivision" :> "IntegerDivision")
               @@ ("percentage" :> "Percentage")
               @@ ("absolutedifference" :> "AbsoluteDifference")
         IN  /\ probe.raised = "none"
             /\ probe.made.cls = matching[Join(probe.text)]

\* C36: a perform_operation that returns has made a record of the
\* strategy's name and the two operands whose result is the value returned
C36_ReturnedIsRecorded ==
    (probe.op = "perform_operation" /\ probe.raised = "none")
       => /\ probe.calc.operation = probe.cls
          /\ probe.calc.operand1 = probe.a
          /\ probe.calc.operand2 = probe.b
          /\ probe.calc.result = probe.val

\* perform_operation on an instance of class absolute(AbsoluteDifference)
\* returned the difference of -2 and 3
C36_Witness ==
    /\ probe.op = "perform_operation"
    /\ probe.cls = "absolute"
    /\ probe.a = Q(-2, 1) /\ probe.b = Q(3, 1)
    /\ probe.raised = "none"
    /\ probe.val = Q(5, 1)
    /\ probe.calc.result = Q(5, 1)

=============================================================================
